---------------------------- MODULE Spec2Model ----------------------------
(***************************************************************************)
(* unistore: typed tables and secondary indexes over a key-value engine,   *)
(* served by one worker thread per Store (native backend).                 *)
(*                                                                         *)
(* Strings are sequences of Unicode code points, byte strings sequences of *)
(* numbers 0..255.  Option and Result values are records:                  *)
(*   [ok |-> BOOLEAN, err |-> STRING, some |-> BOOLEAN, val |-> ...]       *)
(***************************************************************************)
EXTENDS Integers, Sequences, FiniteSets, TLC

(***************************************************************************)
(* Bounds of the model.                                                    *)
(***************************************************************************)
NumCallers == 2        \* concurrent callers of one Store
MaxOps == 2            \* Table operations started in one behaviour
MaxIndexOps == 2       \* index-level operations started in one behaviour
NumInserters == 2      \* callers that insert concurrently, each under its own key
MaxOpenOps == 3        \* create_table calls and row operations of the opened tables
NumSenders == 17       \* callers that send concurrently on the bounded channel
MaxStaticCalls == 3    \* calls of the static accessors

Callers == 1..NumCallers

(***************************************************************************)
(* Sequences of numbers: byte-lexicographic order, prefixes.               *)
(***************************************************************************)
RECURSIVE BytesLess(_, _)
BytesLess(a, b) ==
    IF a = <<>> THEN b # <<>>
    ELSE IF b = <<>> THEN FALSE
    ELSE IF Head(a) # Head(b) THEN Head(a) < Head(b)
    ELSE BytesLess(Tail(a), Tail(b))

StartsWith(s, p) ==
    /\ Len(p) <= Len(s)
    /\ SubSeq(s, 1, Len(p)) = p

\* The least element of a non-empty finite set of byte strings.
MinBytes(S) == CHOOSE x \in S : \A y \in S : y = x \/ BytesLess(x, y)

RECURSIVE SortedSeq(_)
SortedSeq(S) ==
    IF S = {} THEN <<>>
    ELSE LET m == MinBytes(S) IN <<m>> \o SortedSeq(S \ {m})

(***************************************************************************)
(* UTF-8, as String::into_bytes and String::from_utf8 see it.              *)
(***************************************************************************)
Utf8Char(cp) ==
    IF cp < 128 THEN <<cp>>
    ELSE IF cp < 2048 THEN <<192 + (cp \div 64), 128 + (cp % 64)>>
    ELSE IF cp < 65536
        THEN <<224 + (cp \div 4096), 128 + ((cp \div 64) % 64), 128 + (cp % 64)>>
    ELSE <<240 + (cp \div 262144), 128 + ((cp \div 4096) % 64),
           128 + ((cp \div 64) % 64), 128 + (cp % 64)>>

RECURSIVE Utf8Encode(_)
Utf8Encode(s) == IF s = <<>> THEN <<>> ELSE Utf8Char(Head(s)) \o Utf8Encode(Tail(s))

\* Length of the well-formed UTF-8 sequence at the head of b, 0 when there is none.
Utf8Width(b) ==
    LET n == Len(b)
        b1 == b[1]
        c(i, lo, hi) == n >= i /\ b[i] >= lo /\ b[i] <= hi
    IN  IF b1 < 128 THEN 1
        ELSE IF b1 >= 194 /\ b1 <= 223 THEN (IF c(2, 128, 191) THEN 2 ELSE 0)
        ELSE IF b1 = 224 THEN (IF c(2, 160, 191) /\ c(3, 128, 191) THEN 3 ELSE 0)
        ELSE IF b1 = 237 THEN (IF c(2, 128, 159) /\ c(3, 128, 191) THEN 3 ELSE 0)
        ELSE IF b1 >= 225 /\ b1 <= 239
            THEN (IF c(2, 128, 191) /\ c(3, 128, 191) THEN 3 ELSE 0)
        ELSE IF b1 = 240
            THEN (IF c(2, 144, 191) /\ c(3, 128, 191) /\ c(4, 128, 191) THEN 4 ELSE 0)
        ELSE IF b1 >= 241 /\ b1 <= 243
            THEN (IF c(2, 128, 191) /\ c(3, 128, 191) /\ c(4, 128, 191) THEN 4 ELSE 0)
        ELSE IF b1 = 244
            THEN (IF c(2, 128, 143) /\ c(3, 128, 191) /\ c(4, 128, 191) THEN 4 ELSE 0)
        ELSE 0

Utf8CodePoint(b, w) ==
    IF w = 1 THEN b[1]
    ELSE IF w = 2 THEN (b[1] - 192) * 64 + (b[2] - 128)
    ELSE IF w = 3 THEN (b[1] - 224) * 4096 + (b[2] - 128) * 64 + (b[3] - 128)
    ELSE (b[1] - 240) * 262144 + (b[2] - 128) * 4096 + (b[3] - 128) * 64 + (b[4] - 128)

\* String::from_utf8: [ok, val]; ok is FALSE on the first ill-formed sequence.
RECURSIVE Utf8Decode(_)
Utf8Decode(b) ==
    IF b = <<>> THEN [ok |-> TRUE, val |-> <<>>]
    ELSE LET w == Utf8Width(b) IN
         IF w = 0 THEN [ok |-> FALSE, val |-> <<>>]
         ELSE LET rest == Utf8Decode(SubSeq(b, w + 1, Len(b))) IN
              IF rest.ok
                THEN [ok |-> TRUE, val |-> <<Utf8CodePoint(b, w)>> \o rest.val]
                ELSE [ok |-> FALSE, val |-> <<>>]

(***************************************************************************)
(* Key codec (key.rs).  A key kind is "String" or an integer kind.         *)
(***************************************************************************)
IntKinds == {"u8", "u16", "u32", "u64", "i8", "i16", "i32", "i64"}
Signed(kind) == kind \in {"i8", "i16", "i32", "i64"}

Width(kind) ==
    CASE kind \in {"u8", "i8"} -> 1
      [] kind \in {"u16", "i16"} -> 2
      [] kind \in {"u32", "i32"} -> 4
      [] kind \in {"u64", "i64"} -> 8

\* The w low bytes of n >= 0, most significant first.
RECURSIVE BeBytes(_, _)
BeBytes(n, w) == IF w = 0 THEN <<>> ELSE BeBytes(n \div 256, w - 1) \o <<n % 256>>

\* The bytes least significant first (to_le_bytes).
ToLeBytes(kind, n) ==
    LET w == Width(kind)
        m == IF n >= 0 THEN n ELSE -n - 1
        pos == BeBytes(m, w)
    IN  [i \in 1..w |-> IF n >= 0 THEN pos[w + 1 - i] ELSE 255 - pos[w + 1 - i]]

\* to_be_bytes: two's complement for a negative number.
ToBeBytes(kind, n) ==
    IF n >= 0 THEN BeBytes(n, Width(kind))
    ELSE LET pos == BeBytes(-n - 1, Width(kind))
         IN  [i \in 1..Len(pos) |-> 255 - pos[i]]

RECURSIVE BeValue(_)
BeValue(b) == IF b = <<>> THEN 0 ELSE BeValue(SubSeq(b, 1, Len(b) - 1)) * 256 + b[Len(b)]

\* from_be_bytes of exactly Width(kind) bytes.
FromBeBytes(kind, b) ==
    IF Signed(kind) /\ b[1] >= 128
      THEN -BeValue([i \in 1..Len(b) |-> 255 - b[i]]) - 1
      ELSE BeValue(b)

\* as_bytes with the least significant byte first.
AsBytesLittleEndian(kind, k) == IF kind = "String" THEN Utf8Encode(k) ELSE ToLeBytes(kind, k)

\* Key::as_bytes
AsBytes(kind, k) == IF kind = "String" THEN Utf8Encode(k) ELSE ToBeBytes(kind, k)

\* from_bytes without the length check of try_into.
FromBytesAnyLength(kind, b) ==
    IF kind = "String"
      THEN LET d == Utf8Decode(b) IN
           [ok |-> d.ok, err |-> IF d.ok THEN "none" ELSE "KeyTypeMismatch", val |-> d.val]
    ELSE [ok |-> TRUE, err |-> "none", val |-> 0]

\* Key::from_bytes
FromBytes(kind, b) ==
    IF kind = "String"
      THEN LET d == Utf8Decode(b) IN
           [ok |-> d.ok, err |-> IF d.ok THEN "none" ELSE "KeyTypeMismatch", val |-> d.val]
    ELSE IF Len(b) # Width(kind)
      THEN [ok |-> FALSE, err |-> "KeyTypeMismatch", val |-> 0]
    ELSE [ok |-> TRUE, err |-> "none", val |-> FromBeBytes(kind, b)]

\* The decimal digits of n >= 0 as code points.
RECURSIVE Digits(_)
Digits(n) == IF n < 10 THEN <<48 + n>> ELSE Digits(n \div 10) \o <<48 + (n % 10)>>

\* Key::to_key_string
ToKeyString(kind, k) ==
    IF kind = "String" THEN k
    ELSE IF k < 0 THEN <<45>> \o Digits(-k) ELSE Digits(k)

IsDigit(c) == c >= 48 /\ c <= 57

RECURSIVE DigitsValue(_)
DigitsValue(s) ==
    IF s = <<>> THEN 0 ELSE DigitsValue(SubSeq(s, 1, Len(s) - 1)) * 10 + (s[Len(s)] - 48)

\* The kinds whose range is narrower than the numerals the model parses.
KindMax(kind) ==
    CASE kind = "u8" -> 255
      [] kind = "i8" -> 127
      [] kind = "u16" -> 65535
      [] kind = "i16" -> 32767
      [] OTHER -> 999999999

KindMin(kind) ==
    CASE kind = "i8" -> -128
      [] kind = "i16" -> -32768
      [] kind \in {"i32", "i64"} -> -999999999
      [] OTHER -> 0

\* str::parse::<int>: an optional sign ('-' only for a signed kind), then one
\* or more decimal digits, in range.
ParseInt(kind, s) ==
    LET bad == [ok |-> FALSE, err |-> "KeyTypeMismatch", val |-> 0]
        neg == s # <<>> /\ s[1] = 45 /\ Signed(kind)
        signed == s # <<>> /\ (s[1] = 43 \/ neg)
        ds == IF signed THEN Tail(s) ELSE s
    IN  IF ds = <<>> \/ Len(ds) > 9 \/ \E i \in 1..Len(ds) : ~IsDigit(ds[i]) THEN bad
        ELSE LET v == IF neg THEN -DigitsValue(ds) ELSE DigitsValue(ds) IN
             IF v > KindMax(kind) \/ v < KindMin(kind) THEN bad
             ELSE [ok |-> TRUE, err |-> "none", val |-> v]

\* Key::from_key_string
FromKeyString(kind, s) ==
    IF kind = "String" THEN [ok |-> TRUE, err |-> "none", val |-> s]
    ELSE ParseInt(kind, s)

(***************************************************************************)
(* Value codec: rmp_serde::to_vec / from_slice (MessagePack) for the value *)
(* kinds the model stores: "String" (fixstr, at most 31 bytes) and "Unit"  *)
(* (nil).                                                                  *)
(***************************************************************************)
ValEncode(kind, v) ==
    IF kind = "Unit" THEN <<192>>
    ELSE LET b == Utf8Encode(v) IN <<160 + Len(b)>> \o b

ValDecode(kind, b) ==
    LET bad == [ok |-> FALSE, err |-> "RmpDecode", val |-> <<>>] IN
    IF b = <<>> THEN bad
    ELSE IF kind = "Unit"
      THEN (IF b[1] = 192 THEN [ok |-> TRUE, err |-> "none", val |-> <<>>] ELSE bad)
    ELSE IF b[1] >= 160 /\ b[1] <= 191 /\ Len(b) >= 1 + (b[1] - 160)
      THEN LET d == Utf8Decode(SubSeq(b, 2, 1 + (b[1] - 160))) IN
           IF d.ok THEN [ok |-> TRUE, err |-> "none", val |-> d.val] ELSE bad
    ELSE bad

(***************************************************************************)
(* The storage engine (fjall) at its interface: a partition is a function  *)
(* from the byte keys present to their byte values, ordered by byte-       *)
(* lexicographic key order.                                                *)
(***************************************************************************)
EmptyPartition == [x \in {} |-> <<>>]

\* An insert that keeps the entry a key already has.
EngineInsertIfAbsent(p, k, v) == [x \in DOMAIN p \cup {k} |-> IF x \in DOMAIN p THEN p[x] ELSE v]

\* PartitionHandle::insert
EngineInsert(p, k, v) == [x \in DOMAIN p \cup {k} |-> IF x = k THEN v ELSE p[x]]

\* A remove that deletes every key starting with k.
EngineRemovePrefix(p, k) == [x \in {y \in DOMAIN p : ~StartsWith(y, k)} |-> p[x]]

\* PartitionHandle::remove
EngineRemove(p, k) == [x \in DOMAIN p \ {k} |-> p[x]]

\* PartitionHandle::get
EngineGet(p, k) ==
    IF k \in DOMAIN p THEN [some |-> TRUE, val |-> p[k]] ELSE [some |-> FALSE, val |-> <<>>]

\* PartitionHandle::contains_key
EngineContains(p, k) == k \in DOMAIN p

\* A first_key_value that returns the entry of the greatest key.
EngineLastKeyValue(p) ==
    LET m == CHOOSE x \in DOMAIN p : \A y \in DOMAIN p : y = x \/ BytesLess(y, x)
    IN  <<m, p[m]>>

\* PartitionHandle::first_key_value of a non-empty partition: the entry of
\* the least key.
EngineFirstKeyValue(p) == LET m == MinBytes(DOMAIN p) IN <<m, p[m]>>

\* A count that only tells an empty partition from a non-empty one.
EngineLenAtMostOne(p) == IF DOMAIN p = {} THEN 0 ELSE 1

\* PartitionHandle::len
EngineLen(p) == Cardinality(DOMAIN p)

\* An emptiness check that calls every partition empty.
EngineIsEmptyAlways(p) == TRUE

\* PartitionHandle::is_empty
EngineIsEmpty(p) == DOMAIN p = {}

\* A scan from the prefix to the end of the partition (no upper bound).
EngineFrom(p, prefix) ==
    LET ks == SortedSeq({k \in DOMAIN p : k = prefix \/ BytesLess(prefix, k)})
    IN  [i \in 1..Len(ks) |-> <<ks[i], p[ks[i]]>>]

\* PartitionHandle::prefix: the entries whose key starts with the prefix, ascending.
EnginePrefix(p, prefix) ==
    LET ks == SortedSeq({k \in DOMAIN p : StartsWith(k, prefix)})
    IN  [i \in 1..Len(ks) |-> <<ks[i], p[ks[i]]>>]

(***************************************************************************)
(* State.                                                                  *)
(***************************************************************************)
VARIABLES
    keyspace,   \* the worker's `keyspace`: TRUE once the database is open
    parts,      \* the engine: partition name -> partition
    chan,       \* the mpsc channel: Actions sent and not yet taken
    wcur,       \* the Action the worker is executing (NoAction between two)
    reply,      \* the oneshot reply slot of each caller's pending request
    cs,         \* each caller's position and locals
    nops,       \* operations started so far
    sent,       \* history: Actions sent so far (an Action's seq is its rank)
    taken,      \* history: Actions taken by the worker so far
    abs,        \* history: table name -> typed key -> typed value, by executed writes
    wseq,       \* history: writes executed so far
    warned,     \* warnings the worker has logged for replies it could not deliver
    running,    \* the worker thread is in its loop
    database,   \* a Database (the channel's Sender) exists
    statics     \* the OnceLock and the INITIALIZING mutex of each static accessor

vars == <<keyspace, parts, chan, wcur, reply, cs, nops, sent, taken, abs, wseq,
          warned, running, database, statics>>

NoAction ==
    [tag |-> "none", table |-> "", key |-> <<>>, value |-> <<>>, resp |-> 0, seq |-> 0,
     gk |-> <<>>, gv |-> <<>>]

\* An Action that carries the reply slot of caller 1 whoever sends it.
ActionOneSlot(tag, table, key, value, c, gk, gv) ==
    [tag |-> tag, table |-> table, key |-> key, value |-> value, resp |-> 1,
     seq |-> sent + 1, gk |-> gk, gv |-> gv]

\* enum Action, with its reply slot `resp_tx` named by the caller that holds `resp_rx`.
\* gk, gv: the typed key and value the byte operands were encoded from (history).
Action(tag, table, key, value, c, gk, gv) ==
    [tag |-> tag, table |-> table, key |-> key, value |-> value, resp |-> c,
     seq |-> sent + 1, gk |-> gk, gv |-> gv]

NoReply == [err |-> "pending", some |-> FALSE, val |-> <<>>, n |-> 0, at |-> 0]

\* Ok(...) sent on a reply slot; `at` is the number of writes executed before it.
OkReply(some, val, n) == [err |-> "none", some |-> some, val |-> val, n |-> n, at |-> wseq]

\* Err(e) sent on a reply slot.
ErrReply(e) == [err |-> e, some |-> FALSE, val |-> <<>>, n |-> 0, at |-> wseq]

NoResult ==
    [ok |-> FALSE, err |-> "pending", some |-> FALSE, val |-> <<>>, n |-> 0,
     ents |-> <<>>, at |-> 0]

Result(err, some, val, n, ents, at) ==
    [ok |-> err = "none", err |-> err, some |-> some, val |-> val, n |-> n,
     ents |-> ents, at |-> at]

(***************************************************************************)
(* The tables of the model and their declared (K, V) kinds.                *)
(***************************************************************************)
TableT == "t"                      \* a (String, String) table
TableP == "p"                      \* a (u32, String) table with an index "name"
FwdTable == "p_index_name"         \* its forward index table, (String, ())
RevTable == "p_index_name_rev"     \* its reverse index table, (String, String)
KKind(tbl) == IF tbl = TableP THEN "u32" ELSE "String"
VKind(tbl) == IF tbl = FwdTable THEN "Unit" ELSE "String"

\* Keys, prefixes and values the callers of table "t" draw from: "a", "ab", "b".
KeysT == {<<97>>, <<97, 98>>, <<98>>}
PrefixesT == {<<>>, <<97>>, <<97, 98>>, <<98>>}
ValuesT == {<<120>>, <<121>>}

\* The partition that holds the typed table m of kinds (KKind, VKind).
Stored(tbl, m) ==
    LET ks == {AsBytes(KKind(tbl), k) : k \in DOMAIN m}
        KeyOfBytes(b) == CHOOSE k \in DOMAIN m : AsBytes(KKind(tbl), k) = b
    IN  [b \in ks |-> ValEncode(VKind(tbl), m[KeyOfBytes(b)])]

\* What table "t" holds when the callers start: nothing, or {a: x, ab: y, b: x}.
InitTablesT ==
    {EmptyPartition,
     [k \in KeysT |-> IF k = <<97, 98>> THEN <<121>> ELSE <<120>>]}

IdleCaller ==
    [pc |-> "idle", op |-> "none", tbl |-> "", key |-> <<>>, val |-> <<>>,
     res |-> NoResult, ival |-> <<>>, pk |-> 0, ents |-> <<>>, acc |-> <<>>,
     phase |-> 0, kk |-> "", vk |-> "", rif |-> FALSE]

\* No static accessor is in use.
NoStatics == <<>>

\* A Store that create_database has returned: the worker runs, the Database
\* holds the Sender, no warning is logged.
StoreOpen == warned = 0 /\ running = TRUE /\ database = TRUE /\ statics = NoStatics

(***************************************************************************)
(* Database (native.rs 43-136): each method clones the sender, sends one   *)
(* Action carrying a fresh oneshot sender and awaits the receiver.  A      *)
(* fresh clone of a futures mpsc sender is never parked, so its first send *)
(* enqueues at once.                                                       *)
(***************************************************************************)
Send(a) ==
    /\ chan' = Append(chan, a)
    /\ sent' = sent + 1
    /\ reply' = [reply EXCEPT ![a.resp] = NoReply]

\* An insert that sends the Action under the encoding of the empty key.
InsertActionNoKey(c, tbl, k, v) ==
    Action("Insert", tbl, <<>>, ValEncode(VKind(tbl), v), c, k, v)

\* native::insert 401-406
InsertAction(c, tbl, k, v) ==
    Action("Insert", tbl, AsBytes(KKind(tbl), k), ValEncode(VKind(tbl), v), c, k, v)
\* native::get 424-425
GetAction(c, tbl, k) == Action("Get", tbl, AsBytes(KKind(tbl), k), <<>>, c, k, <<>>)
\* native::contains 415-416
ContainsAction(c, tbl, k) == Action("Contains", tbl, AsBytes(KKind(tbl), k), <<>>, c, k, <<>>)
\* native::remove 439-440
RemoveAction(c, tbl, k) == Action("Remove", tbl, AsBytes(KKind(tbl), k), <<>>, c, k, <<>>)
\* native::len 444, native::is_empty 452
IsTableEmptyAction(c, tbl) == Action("IsTableEmpty", tbl, <<>>, <<>>, c, <<>>, <<>>)
\* native::len 448
LenAction(c, tbl) == Action("Len", tbl, <<>>, <<>>, c, <<>>, <<>>)

\* What the awaiting Table operation returns for reply r.
\* native::insert 407-408, native::remove 440
UnitResult(r) == Result(r.err, FALSE, <<>>, 0, <<>>, r.at)
\* native::contains 416-417, native::is_empty 452
BoolResult(r) == Result(r.err, r.some, <<>>, 0, <<>>, r.at)
\* native::len 448
CountResult(r) == Result(r.err, FALSE, <<>>, r.n, <<>>, r.at)
\* A get that reports every stored value as absent.
GetResultNone(tbl, r) == Result(r.err, FALSE, <<>>, 0, <<>>, r.at)

\* native::get 425-432
GetResult(tbl, r) ==
    IF r.err # "none" THEN Result(r.err, FALSE, <<>>, 0, <<>>, r.at)
    ELSE IF ~r.some THEN Result("none", FALSE, <<>>, 0, <<>>, r.at)
    ELSE LET d == ValDecode(VKind(tbl), r.val) IN
         IF d.ok THEN Result("none", TRUE, d.val, 0, <<>>, r.at)
         ELSE Result("RmpDecode", FALSE, <<>>, 0, <<>>, r.at)

\* native::get_prefix 464-474: the scan of the partition, each entry decoded as
\* (K, V); the first entry that fails to decode fails the whole call.
RECURSIVE DecodeEntries(_, _)
DecodeEntries(tbl, es) ==
    IF es = <<>> THEN [err |-> "none", ents |-> <<>>]
    ELSE LET k == FromBytes(KKind(tbl), es[1][1])
             v == ValDecode(VKind(tbl), es[1][2])
         IN  IF ~k.ok THEN [err |-> "KeyTypeMismatch", ents |-> <<>>]
             ELSE IF ~v.ok THEN [err |-> "RmpDecode", ents |-> <<>>]
             ELSE LET rest == DecodeEntries(tbl, Tail(es)) IN
                  IF rest.err # "none" THEN rest
                  ELSE [err |-> "none", ents |-> <<<<k.val, v.val>>>> \o rest.ents]

PrefixResult(tbl, prefix) ==
    LET d == DecodeEntries(tbl, EnginePrefix(parts[tbl], AsBytes(KKind(tbl), prefix)))
    IN  Result(d.err, FALSE, <<>>, 0, d.ents, wseq)

(***************************************************************************)
(* The worker (start_worker, native.rs 223-308).                           *)
(***************************************************************************)
\* A worker that serves the most recently sent Action first.
TakeFromNewest(q) == [a |-> q[Len(q)], rest |-> SubSeq(q, 1, Len(q) - 1)]

\* A worker that leaves the Action it takes in the channel.
TakeFromKeep(q) == [a |-> Head(q), rest |-> q]

\* block_on_stream(rx): the next Action of the channel and what stays queued.
TakeFrom(q) == [a |-> Head(q), rest |-> Tail(q)]

\* A delete that answers Ok and leaves the partition in place.
HandleDeleteTableKeep(name) ==
    IF ~keyspace THEN [parts |-> parts, rep |-> ErrReply("StoreNotInitialized")]
    ELSE [parts |-> parts, rep |-> OkReply(FALSE, <<>>, 0)]

\* handle_delete_table 310-314
HandleDeleteTable(name) ==
    IF ~keyspace THEN [parts |-> parts, rep |-> ErrReply("StoreNotInitialized")]
    ELSE [parts |-> [t \in DOMAIN parts \ {name} |-> parts[t]],
          rep |-> OkReply(FALSE, <<>>, 0)]

\* A create-partition handler that always hands out a fresh, empty partition.
HandleCreateTableTruncate(name) ==
    IF ~keyspace THEN [parts |-> parts, rep |-> ErrReply("StoreNotInitialized")]
    ELSE [parts |-> [t \in DOMAIN parts \cup {name} |->
                        IF t \in DOMAIN parts /\ t # name THEN parts[t] ELSE EmptyPartition],
          rep |-> OkReply(name \notin DOMAIN parts, <<>>, 0)]

\* handle_create_table 316-324: the reply's `some` is `new`.
HandleCreateTable(name) ==
    IF ~keyspace THEN [parts |-> parts, rep |-> ErrReply("StoreNotInitialized")]
    ELSE [parts |-> [t \in DOMAIN parts \cup {name} |->
                        IF t \in DOMAIN parts THEN parts[t] ELSE EmptyPartition],
          rep |-> OkReply(name \notin DOMAIN parts, <<>>, 0)]

\* The match of the worker loop on one Action: the engine call and the reply.
HandleAction(a) ==
    LET p == parts[a.table] IN
    CASE a.tag = "Insert" ->
           [parts |-> [parts EXCEPT ![a.table] = EngineInsert(p, a.key, a.value)],
            rep |-> OkReply(FALSE, <<>>, 0)]
      [] a.tag = "Remove" ->
           [parts |-> [parts EXCEPT ![a.table] = EngineRemove(p, a.key)],
            rep |-> OkReply(FALSE, <<>>, 0)]
      [] a.tag = "Get" ->
           [parts |-> parts,
            rep |-> OkReply(EngineGet(p, a.key).some, EngineGet(p, a.key).val, 0)]
      [] a.tag = "Contains" ->
           [parts |-> parts, rep |-> OkReply(EngineContains(p, a.key), <<>>, 0)]
      [] a.tag = "IsTableEmpty" ->
           [parts |-> parts, rep |-> OkReply(EngineIsEmpty(p), <<>>, 0)]
      [] a.tag = "Len" ->
           [parts |-> parts, rep |-> OkReply(FALSE, <<>>, EngineLen(p))]
      [] a.tag = "FirstKeyValue" ->
           [parts |-> parts,
            rep |-> IF EngineIsEmpty(p) THEN OkReply(FALSE, <<>>, 0)
                    ELSE OkReply(TRUE, EngineFirstKeyValue(p), 0)]
      [] a.tag = "CreateTable" -> HandleCreateTable(a.table)
      [] a.tag = "DeleteTable" -> HandleDeleteTable(a.table)
      [] a.tag = "CreateDb" ->
           [parts |-> parts, rep |-> IF a.gv = "none" THEN OkReply(FALSE, <<>>, 0)
                                     ELSE ErrReply(a.gv)]

\* The worker holds an Action it has taken and not yet answered.
WorkerBusy == wcur.tag # "none"

IsWrite(a) == a.tag \in {"Insert", "Remove"} \/ (a.tag = "DeleteTable" /\ keyspace)

\* History: the typed table after the write a.
AbsAfter(a) ==
    LET m == abs[a.table] IN
    IF a.tag = "Insert"
      THEN [abs EXCEPT ![a.table] = [x \in DOMAIN m \cup {a.gk} |-> IF x = a.gk THEN a.gv ELSE m[x]]]
    ELSE IF a.tag = "Remove"
      THEN [abs EXCEPT ![a.table] = [x \in DOMAIN m \ {a.gk} |-> m[x]]]
    ELSE IF a.tag = "DeleteTable" /\ keyspace
      THEN [t \in DOMAIN abs \ {a.table} |-> abs[t]]
    ELSE IF a.tag = "CreateTable" /\ keyspace
      THEN [t \in DOMAIN abs \cup {a.table} |-> IF t \in DOMAIN abs THEN abs[t] ELSE <<>>]
    ELSE abs

\* resp_tx.send(result).is_err(): the caller has dropped the receiver of the
\* request (native.rs 244-300); the worker then logs a warning (302-304).
\* A worker that treats every reply slot as abandoned.
ReceiverDroppedAlways(a) == TRUE

ReceiverDropped(a) == cs[a.resp].pc = "dropped"

\* A worker that never keeps the keyspace it opened.
KeyspaceAfterNever(a) == keyspace

\* CreateDb 235-243: `keyspace` becomes Some(ks) when the open succeeds (the
\* Action's gv is the outcome the environment gives to get_path and open).
KeyspaceAfter(a) == IF a.tag = "CreateDb" /\ a.gv = "none" THEN TRUE ELSE keyspace

\* A worker that skips the engine call when nobody waits for the reply.
EngineAfterIfListening(a) == IF ReceiverDropped(a) THEN parts ELSE HandleAction(a).parts

\* start_worker 228-301: the engine call is made before the reply is sent,
\* whether or not the receiver still exists.
EngineAfter(a) == HandleAction(a).parts

\* The callers suspended in send: their Action is in the channel and the
\* Sender they used is parked (pk is the rank of the Action).
ParkedSenders == {c \in DOMAIN cs : cs[c].pc = "parked"}

UnparkNone == cs

\* Receiver::next_message, unpark_one: taking a message wakes the Sender
\* that has been parked longest, if there is one.
UnparkOne ==
    IF ParkedSenders = {} THEN cs
    ELSE LET c == CHOOSE x \in ParkedSenders : \A y \in ParkedSenders : cs[x].pk <= cs[y].pk
         IN  [cs EXCEPT ![c].pc = "wait"]

\* The worker takes the next Action from the channel.
WorkerTake ==
    /\ running
    /\ ~WorkerBusy
    /\ chan # <<>>
    /\ wcur' = TakeFrom(chan).a
    /\ chan' = TakeFrom(chan).rest
    /\ taken' = taken + 1
    /\ cs' = UnparkOne
    /\ UNCHANGED <<keyspace, warned, running, database, statics, parts, reply, nops, sent, abs, wseq>>

\* The worker performs the engine call of its Action and sends the reply.
WorkerExec ==
    /\ WorkerBusy
    /\ LET h == HandleAction(wcur) IN
       /\ parts' = EngineAfter(wcur)
       /\ IF ReceiverDropped(wcur)
            THEN reply' = reply /\ warned' = warned + 1
            ELSE /\ reply' = [reply EXCEPT ![wcur.resp] =
                       [h.rep EXCEPT !.at = IF IsWrite(wcur) THEN wseq + 1 ELSE wseq]]
                 /\ warned' = warned
    /\ keyspace' = KeyspaceAfter(wcur)
    /\ abs' = AbsAfter(wcur)
    /\ wseq' = IF IsWrite(wcur) THEN wseq + 1 ELSE wseq
    /\ wcur' = NoAction
    /\ UNCHANGED <<running, database, statics, chan, cs, nops, sent, taken>>

(***************************************************************************)
(* Table operations of a caller (native.rs 396-475).                       *)
(***************************************************************************)
Begin(c, op, tbl, k, v, pc) ==
    [cs[c] EXCEPT !.pc = pc, !.op = op, !.tbl = tbl, !.key = k, !.val = v,
                  !.res = NoResult, !.ival = <<>>, !.pk = 0, !.ents = <<>>, !.acc = <<>>]

\* A caller starts an operation whose first step sends Action a.
StartOp(c, a, op, k, v) ==
    /\ Send(a)
    /\ cs' = [cs EXCEPT ![c] = Begin(c, op, a.table, k, v, "wait")]
    /\ nops' = nops + 1
    /\ UNCHANGED <<keyspace, warned, running, database, statics, parts, wcur, taken, abs, wseq>>

CanStart(c) == cs[c].pc = "idle" /\ nops < MaxOps

CallInsert(c) ==
    /\ CanStart(c)
    /\ \E k \in KeysT, v \in ValuesT : StartOp(c, InsertAction(c, TableT, k, v), "insert", k, v)

CallGet(c) ==
    /\ CanStart(c)
    /\ \E k \in KeysT : StartOp(c, GetAction(c, TableT, k), "get", k, <<>>)

CallContains(c) ==
    /\ CanStart(c)
    /\ \E k \in KeysT : StartOp(c, ContainsAction(c, TableT, k), "contains", k, <<>>)

CallRemove(c) ==
    /\ CanStart(c)
    /\ \E k \in KeysT : StartOp(c, RemoveAction(c, TableT, k), "remove", k, <<>>)

\* len and is_empty both start with the emptiness check.
CallLen(c) ==
    /\ CanStart(c)
    /\ StartOp(c, IsTableEmptyAction(c, TableT), "len", <<>>, <<>>)

CallIsEmpty(c) ==
    /\ CanStart(c)
    /\ StartOp(c, IsTableEmptyAction(c, TableT), "is_empty", <<>>, <<>>)

\* Caller c's last operation was op and it has returned.
Done(c, op) == cs[c].pc = "idle" /\ cs[c].op = op

Finish(c, res) == [cs[c] EXCEPT !.pc = "idle", !.res = res]

Replied(c) == cs[c].pc = "wait" /\ reply[c] # NoReply

\* The reply of insert, get, contains, remove or is_empty arrives: the call returns.
Recv(c) ==
    /\ Replied(c)
    /\ cs[c].op \in {"insert", "get", "contains", "remove", "is_empty"}
    /\ cs' = [cs EXCEPT ![c] = Finish(c,
                CASE cs[c].op \in {"insert", "remove"} -> UnitResult(reply[c])
                  [] cs[c].op \in {"contains", "is_empty"} -> BoolResult(reply[c])
                  [] cs[c].op = "get" -> GetResult(cs[c].tbl, reply[c]))]
    /\ reply' = [reply EXCEPT ![c] = NoReply]
    /\ UNCHANGED <<keyspace, warned, running, database, statics, parts, chan, wcur, nops, sent, taken, abs, wseq>>

\* len that asks for the count whatever the emptiness check said.
RecvLenCheckAlwaysCount(c) ==
    /\ Replied(c)
    /\ cs[c].op = "len"
    /\ Send(LenAction(c, cs[c].tbl))
    /\ cs' = [cs EXCEPT ![c].op = "len_count"]
    /\ UNCHANGED <<keyspace, warned, running, database, statics, parts, wcur, nops, taken, abs, wseq>>

\* len, the emptiness check is answered: return 0 when empty (or the error),
\* ask for the count otherwise.
RecvLenCheck(c) ==
    /\ Replied(c)
    /\ cs[c].op = "len"
    /\ IF reply[c].err # "none" \/ reply[c].some
         THEN /\ cs' = [cs EXCEPT ![c] = Finish(c, CountResult([reply[c] EXCEPT !.n = 0]))]
              /\ reply' = [reply EXCEPT ![c] = NoReply]
              /\ UNCHANGED <<chan, sent>>
         ELSE /\ Send(LenAction(c, cs[c].tbl))
              /\ cs' = [cs EXCEPT ![c].op = "len_count"]
    /\ UNCHANGED <<keyspace, warned, running, database, statics, parts, wcur, nops, taken, abs, wseq>>

\* len, the count arrives.
RecvLenCount(c) ==
    /\ Replied(c)
    /\ cs[c].op = "len_count"
    /\ cs' = [cs EXCEPT ![c] = Finish(c, CountResult(reply[c]))]
    /\ reply' = [reply EXCEPT ![c] = NoReply]
    /\ UNCHANGED <<keyspace, warned, running, database, statics, parts, chan, wcur, nops, sent, taken, abs, wseq>>

\* get_prefix creates the engine's prefix iterator on the caller's own thread.
PrefixBegin(c) ==
    /\ CanStart(c)
    /\ \E p \in PrefixesT :
         cs' = [cs EXCEPT ![c] = Begin(c, "get_prefix", TableT, p, <<>>, "scan")]
    /\ nops' = nops + 1
    /\ UNCHANGED <<keyspace, warned, running, database, statics, parts, chan, wcur, reply, sent, taken, abs, wseq>>

\* get_prefix drains the iterator, decodes the entries and returns.
PrefixEnd(c) ==
    /\ cs[c].pc = "scan"
    /\ cs[c].op = "get_prefix"
    /\ cs' = [cs EXCEPT ![c] = Finish(c, PrefixResult(cs[c].tbl, cs[c].key))]
    /\ UNCHANGED <<keyspace, warned, running, database, statics, parts, chan, wcur, reply, nops, sent, taken, abs, wseq>>

(***************************************************************************)
(* Spec: callers of one (String, String) table of an open Store.           *)
(***************************************************************************)
Init ==
    /\ keyspace = TRUE
    /\ abs \in [{TableT} -> InitTablesT]
    /\ parts = [t \in {TableT} |-> Stored(t, abs[t])]
    /\ chan = <<>>
    /\ wcur = NoAction
    /\ reply = [c \in Callers |-> NoReply]
    /\ cs = [c \in Callers |-> IdleCaller]
    /\ nops = 0
    /\ sent = 0
    /\ taken = 0
    /\ wseq = 0
    /\ StoreOpen

Next ==
    \/ WorkerTake
    \/ WorkerExec
    \/ \E c \in Callers :
         \/ CallInsert(c)
         \/ CallGet(c)
         \/ CallContains(c)
         \/ CallRemove(c)
         \/ CallLen(c)
         \/ CallIsEmpty(c)
         \/ Recv(c)
         \/ RecvLenCheck(c)
         \/ RecvLenCount(c)
         \/ PrefixBegin(c)
         \/ PrefixEnd(c)

Spec == Init /\ [][Next]_vars

(***************************************************************************)
(* SpecLenWrites: len on table "t" while other callers insert and remove.  *)
(***************************************************************************)
NextLenWrites ==
    \/ WorkerTake
    \/ WorkerExec
    \/ \E c \in Callers :
         \/ CallLen(c)
         \/ CallInsert(c)
         \/ CallRemove(c)
         \/ Recv(c)
         \/ RecvLenCheck(c)
         \/ RecvLenCount(c)

SpecLenWrites == Init /\ [][NextLenWrites]_vars

(***************************************************************************)
(* SpecReplies: concurrent insert, get, contains and remove on table "t".  *)
(***************************************************************************)
NextReplies ==
    \/ WorkerTake
    \/ WorkerExec
    \/ \E c \in Callers :
         \/ CallInsert(c)
         \/ CallGet(c)
         \/ CallContains(c)
         \/ CallRemove(c)
         \/ Recv(c)

SpecReplies == Init /\ [][NextReplies]_vars

(***************************************************************************)
(* SpecLen: len and is_empty (native.rs 443-453) on table "t", while       *)
(* other callers remove keys.                                              *)
(***************************************************************************)
NextLen ==
    \/ WorkerTake
    \/ WorkerExec
    \/ \E c \in Callers :
         \/ CallLen(c)
         \/ CallIsEmpty(c)
         \/ CallRemove(c)
         \/ Recv(c)
         \/ RecvLenCheck(c)
         \/ RecvLenCount(c)

SpecLen == Init /\ [][NextLen]_vars

(***************************************************************************)
(* SpecInserters: NumInserters callers insert concurrently into the same   *)
(* empty table, each under a key of its own; once all inserts have         *)
(* returned, the callers read the table with get and len.                  *)
(***************************************************************************)
Inserters == 1..NumInserters

\* The key of inserter c: "a", "b", "c", ...
KeyOf(c) == <<96 + c>>

InsertReturned(c) == cs[c].phase = 1 \/ (Done(c, "insert") /\ cs[c].res.ok)
AllInserted == \A c \in Inserters : InsertReturned(c)

InserterInsert(c) ==
    /\ cs[c].pc = "idle" /\ cs[c].op = "none"
    /\ \E v \in ValuesT : StartOp(c, InsertAction(c, TableT, KeyOf(c), v), "insert", KeyOf(c), v)

\* After all inserts, inserter c reads some inserter's key; it keeps the
\* value it wrote in cs[c].val.
InserterGet(c) ==
    /\ AllInserted /\ cs[c].pc = "idle" /\ cs[c].phase = 0
    /\ \E d \in Inserters :
         /\ Send(GetAction(c, TableT, KeyOf(d)))
         /\ cs' = [cs EXCEPT ![c].pc = "wait", ![c].op = "get", ![c].key = KeyOf(d),
                              ![c].res = NoResult, ![c].phase = 1]
    /\ nops' = nops + 1
    /\ UNCHANGED <<keyspace, warned, running, database, statics, parts, wcur, taken, abs, wseq>>

InserterLen(c) ==
    /\ AllInserted /\ cs[c].pc = "idle" /\ cs[c].phase = 0
    /\ Send(IsTableEmptyAction(c, TableT))
    /\ cs' = [cs EXCEPT ![c].pc = "wait", ![c].op = "len", ![c].res = NoResult,
                         ![c].phase = 1]
    /\ nops' = nops + 1
    /\ UNCHANGED <<keyspace, warned, running, database, statics, parts, wcur, taken, abs, wseq>>

InitInserters ==
    /\ keyspace = TRUE
    /\ abs = [t \in {TableT} |-> EmptyPartition]
    /\ parts = [t \in {TableT} |-> EmptyPartition]
    /\ chan = <<>>
    /\ wcur = NoAction
    /\ reply = [c \in Inserters |-> NoReply]
    /\ cs = [c \in Inserters |-> IdleCaller]
    /\ nops = 0
    /\ sent = 0
    /\ taken = 0
    /\ wseq = 0
    /\ StoreOpen

NextInserters ==
    \/ WorkerTake
    \/ WorkerExec
    \/ \E c \in Inserters :
         \/ InserterInsert(c)
         \/ InserterGet(c)
         \/ InserterLen(c)
         \/ Recv(c)
         \/ RecvLenCheck(c)
         \/ RecvLenCount(c)

SpecInserters == InitInserters /\ [][NextInserters]_vars

(***************************************************************************)
(* UniIndex (index.rs) over table "p": index values are Strings, primary   *)
(* keys u32.  Each table call of an index operation is one round trip to   *)
(* the worker, except the prefix scan of the forward table.                *)
(***************************************************************************)
IndexValues == {<<97>>, <<97, 98>>}             \* "a", "ab"
PKeys == {1, 2}
RecordOf(k) == <<119 + k>>                       \* the record stored under k: "x", "y"

Separator == 0

\* index.rs 56-61: format!("{value_str}\0{key_str}")
IndexKey(v, k) == ToKeyString("String", v) \o <<Separator>> \o ToKeyString("u32", k)

\* str::split_once('\0'): the parts before and after the first separator.
SplitOnce(s) ==
    IF \E i \in 1..Len(s) : s[i] = Separator
      THEN LET i == CHOOSE j \in 1..Len(s) :
                      s[j] = Separator /\ \A h \in 1..(j - 1) : s[h] # Separator
           IN  [found |-> TRUE, left |-> SubSeq(s, 1, i - 1), right |-> SubSeq(s, i + 1, Len(s))]
      ELSE [found |-> FALSE, left |-> s, right |-> <<>>]

CanStartIndexOp(c) == cs[c].pc = "idle" /\ nops < MaxIndexOps

\* A step of an index operation that sends the next Action.
IndexSend(c, a, op) ==
    /\ Send(a)
    /\ cs' = [cs EXCEPT ![c].pc = "wait", ![c].op = op, ![c].tbl = a.table]

\* A step of an index operation that returns.
IndexReturn(c, op, res) ==
    /\ cs' = [cs EXCEPT ![c] = [Finish(c, res) EXCEPT !.op = op, !.ents = <<>>, !.acc = <<>>]]
    /\ reply' = [reply EXCEPT ![c] = NoReply]
    /\ UNCHANGED <<chan, sent>>

\* UniIndex::insert 56-58: read the reverse entry of the primary key.
IndexInsertCall(c) ==
    /\ CanStartIndexOp(c)
    /\ \E v \in IndexValues, k \in PKeys :
         /\ Send(GetAction(c, RevTable, ToKeyString("u32", k)))
         /\ cs' = [cs EXCEPT ![c] =
                      [Begin(c, "ii_rev_get", RevTable, <<>>, <<>>, "wait")
                          EXCEPT !.ival = v, !.pk = k]]
    /\ nops' = nops + 1
    /\ UNCHANGED <<keyspace, warned, running, database, statics, parts, wcur, taken, abs, wseq>>

\* An index insert that never removes the old forward entry.
IndexInsertRevGotNoRemove(c) ==
    /\ Replied(c) /\ cs[c].op = "ii_rev_get"
    /\ LET r == GetResult(RevTable, reply[c]) IN
       IF ~r.ok THEN IndexReturn(c, "idx_insert", r)
       ELSE IndexSend(c, InsertAction(c, FwdTable, IndexKey(cs[c].ival, cs[c].pk), <<>>),
                      "ii_fwd_insert")
    /\ UNCHANGED <<keyspace, warned, running, database, statics, parts, wcur, nops, taken, abs, wseq>>

\* UniIndex::insert 58-62: remove the forward entry the reverse entry names,
\* or, with no reverse entry, insert the new forward entry.
IndexInsertRevGot(c) ==
    /\ Replied(c) /\ cs[c].op = "ii_rev_get"
    /\ LET r == GetResult(RevTable, reply[c]) IN
       IF ~r.ok THEN IndexReturn(c, "idx_insert", r)
       ELSE IF r.some
         THEN /\ Send(RemoveAction(c, FwdTable, r.val))
              /\ cs' = [cs EXCEPT ![c].pc = "wait", ![c].op = "ii_fwd_remove",
                                   ![c].tbl = FwdTable, ![c].key = r.val]
       ELSE IndexSend(c, InsertAction(c, FwdTable, IndexKey(cs[c].ival, cs[c].pk), <<>>),
                      "ii_fwd_insert")
    /\ UNCHANGED <<keyspace, warned, running, database, statics, parts, wcur, nops, taken, abs, wseq>>

\* UniIndex::insert 59-62: the old forward entry is removed; insert the new one.
IndexInsertRemoved(c) ==
    /\ Replied(c) /\ cs[c].op = "ii_fwd_remove"
    /\ LET r == UnitResult(reply[c]) IN
       IF ~r.ok THEN IndexReturn(c, "idx_insert", r)
       ELSE IndexSend(c, InsertAction(c, FwdTable, IndexKey(cs[c].ival, cs[c].pk), <<>>),
                      "ii_fwd_insert")
    /\ UNCHANGED <<keyspace, warned, running, database, statics, parts, wcur, nops, taken, abs, wseq>>

\* UniIndex::insert 62-63: the forward entry is written; write the reverse entry.
IndexInsertFwdDone(c) ==
    /\ Replied(c) /\ cs[c].op = "ii_fwd_insert"
    /\ LET r == UnitResult(reply[c]) IN
       IF ~r.ok THEN IndexReturn(c, "idx_insert", r)
       ELSE IndexSend(c, InsertAction(c, RevTable, ToKeyString("u32", cs[c].pk),
                                      IndexKey(cs[c].ival, cs[c].pk)), "ii_rev_insert")
    /\ UNCHANGED <<keyspace, warned, running, database, statics, parts, wcur, nops, taken, abs, wseq>>

\* UniIndex::insert 63-64: the reverse entry is written; return.
IndexInsertDone(c) ==
    /\ Replied(c) /\ cs[c].op = "ii_rev_insert"
    /\ IndexReturn(c, "idx_insert", UnitResult(reply[c]))
    /\ UNCHANGED <<keyspace, warned, running, database, statics, parts, wcur, nops, taken, abs, wseq>>

\* UniIndex::get 21: the prefix scan of the forward table starts.
IndexGetCall(c) ==
    /\ CanStartIndexOp(c)
    /\ \E v \in IndexValues :
         cs' = [cs EXCEPT ![c] =
                   [Begin(c, "ig_scan", FwdTable, <<>>, <<>>, "scan") EXCEPT !.ival = v]]
    /\ nops' = nops + 1
    /\ UNCHANGED <<keyspace, warned, running, database, statics, parts, chan, wcur, reply, sent, taken, abs, wseq>>

\* UniIndex::get 23-32, the head of the loop over the scanned forward keys
\* es, with the results acc so far, for a scan made after `at` writes: split
\* the next key at the separator, parse the primary key and fetch its record,
\* or return the results when no key is left.
IndexGetLoop(c, es, acc, at) ==
    IF es = <<>> THEN IndexReturn(c, "idx_get", Result("none", FALSE, <<>>, 0, acc, at))
    ELSE LET sp == SplitOnce(es[1])
             k == FromKeyString("u32", sp.right)
         IN  IF ~sp.found
               THEN IndexReturn(c, "idx_get", Result("panic", FALSE, <<>>, 0, <<>>, at))
             ELSE IF ~k.ok
               THEN IndexReturn(c, "idx_get", Result(k.err, FALSE, <<>>, 0, <<>>, at))
             ELSE /\ Send(GetAction(c, TableP, k.val))
                  /\ cs' = [cs EXCEPT ![c].pc = "wait", ![c].op = "ig_get",
                                       ![c].tbl = TableP, ![c].pk = k.val,
                                       ![c].ents = es, ![c].acc = acc, ![c].res.at = at]

\* UniIndex::get 21-23: the scan returns the matching forward keys.
IndexGetScanned(c) ==
    /\ cs[c].pc = "scan" /\ cs[c].op = "ig_scan"
    /\ LET r == PrefixResult(FwdTable, ToKeyString("String", cs[c].ival)) IN
       IF ~r.ok THEN IndexReturn(c, "idx_get", r)
       ELSE IndexGetLoop(c, [i \in 1..Len(r.ents) |-> r.ents[i][1]], <<>>, r.at)
    /\ UNCHANGED <<keyspace, warned, running, database, statics, parts, wcur, nops, taken, abs, wseq>>

\* A lookup that also returns the keys that have no record.
IndexGetCollectAll(acc, k, r) == Append(acc, <<k, r.val>>)

\* A lookup that puts each record it finds in front of the earlier ones.
IndexGetCollectFront(acc, k, r) == IF r.some THEN <<(<<k, r.val>>)>> \o acc ELSE acc

\* UniIndex::get 28-30: a record that is found is pushed, None is skipped.
IndexGetCollect(acc, k, r) == IF r.some THEN Append(acc, <<k, r.val>>) ELSE acc

\* UniIndex::get 28-30: the answer for a primary key arrives; go on with the
\* next forward key.
IndexGetGot(c) ==
    /\ Replied(c) /\ cs[c].op = "ig_get"
    /\ LET r == GetResult(TableP, reply[c]) IN
       IF ~r.ok THEN IndexReturn(c, "idx_get", [r EXCEPT !.at = cs[c].res.at])
       ELSE IndexGetLoop(c, Tail(cs[c].ents),
                         IndexGetCollect(cs[c].acc, cs[c].pk, r),
                         cs[c].res.at)
    /\ UNCHANGED <<keyspace, warned, running, database, statics, parts, wcur, nops, taken, abs, wseq>>

\* UniTable::remove on the primary table (UniStoreItem::remove, item.rs 61-66).
PrimaryRemove(c) ==
    /\ CanStartIndexOp(c)
    /\ \E k \in PKeys : StartOp(c, RemoveAction(c, TableP, k), "remove", k, <<>>)

(***************************************************************************)
(* SpecIndex: callers of the index "name" of table "p".  The tables start  *)
(* as earlier operations left them: both primary keys have a record, and   *)
(* key 1, or each of the keys 1 and 2, is indexed under "a".               *)
(***************************************************************************)
InitPrimaries == {[k \in PKeys |-> RecordOf(k)]}

InitIndexed == {{<<(<<97>>), 1>>}, {<<(<<97>>), 1>>, <<(<<97>>), 2>>}}

\* The forward and the reverse table after index inserts of the pairs e
\* (value, key), at most one per key.
ForwardOf(e) == [fk \in {IndexKey(x[1], x[2]) : x \in e} |-> <<>>]
ReverseOf(e) ==
    [rk \in {ToKeyString("u32", x[2]) : x \in e} |->
        LET x == CHOOSE y \in e : ToKeyString("u32", y[2]) = rk IN IndexKey(x[1], x[2])]

\* The start of a run over table "p" and its index, with the index entries
\* drawn from the sets es.
InitIndexFrom(es) ==
    /\ keyspace = TRUE
    /\ \E prim \in InitPrimaries, e \in es :
         abs = [t \in {TableP, FwdTable, RevTable} |->
                  IF t = TableP THEN prim
                  ELSE IF t = FwdTable THEN ForwardOf(e) ELSE ReverseOf(e)]
    /\ parts = [t \in {TableP, FwdTable, RevTable} |-> Stored(t, abs[t])]
    /\ chan = <<>>
    /\ wcur = NoAction
    /\ reply = [c \in Callers |-> NoReply]
    /\ cs = [c \in Callers |-> IdleCaller]
    /\ nops = 0
    /\ sent = 0
    /\ taken = 0
    /\ wseq = 0
    /\ StoreOpen

InitIndex == InitIndexFrom(InitIndexed)

NextIndex ==
    \/ WorkerTake
    \/ WorkerExec
    \/ \E c \in Callers :
         \/ IndexInsertCall(c)
         \/ IndexInsertRevGot(c)
         \/ IndexInsertRemoved(c)
         \/ IndexInsertFwdDone(c)
         \/ IndexInsertDone(c)
         \/ IndexGetCall(c)
         \/ IndexGetScanned(c)
         \/ IndexGetGot(c)
         \/ PrimaryRemove(c)
         \/ Recv(c)

SpecIndex == InitIndex /\ [][NextIndex]_vars

(***************************************************************************)
(* SpecInsertOrder: callers of UniIndex::insert only.  Key 1 starts        *)
(* indexed under "a" and key 2 is not indexed; in one of the two starts    *)
(* the reverse table holds, under key 2, a value that is not a string (the *)
(* partition was written as another table type), so that reading it fails. *)
(***************************************************************************)
InitInsertOrder ==
    /\ keyspace = TRUE
    /\ \E corrupt \in BOOLEAN :
         LET e == {<<(<<97>>), 1>>}
             rev == ReverseOf(e)
             k2 == ToKeyString("u32", 2)
         IN  /\ abs = [t \in {TableP, FwdTable, RevTable} |->
                         IF t = TableP THEN [k \in PKeys |-> RecordOf(k)]
                         ELSE IF t = FwdTable THEN ForwardOf(e)
                         ELSE IF corrupt
                           THEN [x \in DOMAIN rev \cup {k2} |-> IF x = k2 THEN <<>> ELSE rev[x]]
                         ELSE rev]
             /\ parts = [t \in {TableP, FwdTable, RevTable} |->
                           IF t = RevTable /\ corrupt
                             THEN EngineInsert(Stored(t, rev), AsBytes("String", k2),
                                               ValEncode("Unit", <<>>))
                             ELSE Stored(t, abs[t])]
    /\ chan = <<>>
    /\ wcur = NoAction
    /\ reply = [c \in Callers |-> NoReply]
    /\ cs = [c \in Callers |-> IdleCaller]
    /\ nops = 0
    /\ sent = 0
    /\ taken = 0
    /\ wseq = 0
    /\ StoreOpen

NextInsertOrder ==
    \/ WorkerTake
    \/ WorkerExec
    \/ \E c \in Callers :
         \/ IndexInsertCall(c)
         \/ IndexInsertRevGot(c)
         \/ IndexInsertRemoved(c)
         \/ IndexInsertFwdDone(c)
         \/ IndexInsertDone(c)

SpecInsertOrder == InitInsertOrder /\ [][NextInsertOrder]_vars

(***************************************************************************)
(* SpecLookup: index lookups while other callers remove and rewrite the    *)
(* records of table "p" (UniTable::remove and ::insert, which leave the    *)
(* index tables alone).  Both keys start with a record; the index starts   *)
(* with both under "a", with 1 under "a" and 2 under "ab", or with 1 under *)
(* "ab" only.                                                              *)
(***************************************************************************)
InitLookupIndexed ==
    {{<<(<<97>>), 1>>, <<(<<97>>), 2>>}, {<<(<<97>>), 1>>, <<(<<97, 98>>), 2>>},
     {<<(<<97, 98>>), 1>>}}

NewRecord == <<122>>                             \* "z"

\* UniTable::insert on the primary table (UniStoreItem::save, item.rs 47-54).
PrimaryInsert(c) ==
    /\ CanStartIndexOp(c)
    /\ \E k \in PKeys :
         StartOp(c, InsertAction(c, TableP, k, NewRecord), "insert", k, NewRecord)

InitLookup == InitIndexFrom(InitLookupIndexed)

NextLookup ==
    \/ WorkerTake
    \/ WorkerExec
    \/ \E c \in Callers :
         \/ IndexGetCall(c)
         \/ IndexGetScanned(c)
         \/ IndexGetGot(c)
         \/ PrimaryRemove(c)
         \/ PrimaryInsert(c)
         \/ Recv(c)

SpecLookup == InitLookup /\ [][NextLookup]_vars

(***************************************************************************)
(* UniStoreItem::save (item.rs 47-54) of an item with one declared index   *)
(* (insert_indices, unistore_derive 216-233): the index insert of          *)
(* (item.name, item.key), then the insert of the record under item.key.    *)
(* The record of an item is written as its name.  kk = "save" marks a      *)
(* caller that has called save.                                            *)
(***************************************************************************)
\* The items saved: key 2, new, named "a"; key 1, stored, renamed "ab".
SaveItems == {[key |-> 2, name |-> <<97>>], [key |-> 1, name |-> <<97, 98>>]}

\* Caller c is inside save, between insert_indices and table.insert.
MidSave(c) == Done(c, "idx_insert") /\ cs[c].kk = "save"

\* Caller c has called save and save has not returned.
InSave(c) == cs[c].kk = "save" /\ ~Done(c, "save")

\* A save that writes the primary record whatever insert_indices returned.
SaveContinuesAlways(r) == TRUE

\* save 50: `self.insert_indices().await?`
SaveContinues(r) == r.ok

\* save 48-50 and insert_indices: index_table.insert(self.name, self.key)
\* starts by reading the reverse entry of the key (index.rs 56-58).
SaveCall(c) ==
    /\ CanStartIndexOp(c) /\ \A d \in Callers : ~InSave(d)
    /\ \E item \in SaveItems :
         /\ Send(GetAction(c, RevTable, ToKeyString("u32", item.key)))
         /\ cs' = [cs EXCEPT ![c] =
                      [Begin(c, "ii_rev_get", RevTable, <<>>, <<>>, "wait")
                          EXCEPT !.ival = item.name, !.pk = item.key, !.kk = "save"]]
    /\ nops' = nops + 1
    /\ UNCHANGED <<keyspace, warned, running, database, statics, parts, wcur, taken, abs, wseq>>

\* save 50-52: insert_indices has returned; its error ends save, otherwise
\* the record is inserted into the primary table.
SavePrimary(c) ==
    /\ MidSave(c)
    /\ IF SaveContinues(cs[c].res)
         THEN /\ Send(InsertAction(c, TableP, cs[c].pk, cs[c].ival))
              /\ cs' = [cs EXCEPT ![c].pc = "wait", ![c].op = "save_insert",
                                  ![c].tbl = TableP]
         ELSE /\ cs' = [cs EXCEPT ![c].op = "save"]
              /\ UNCHANGED <<chan, sent, reply>>
    /\ UNCHANGED <<keyspace, warned, running, database, statics, parts, wcur, nops, taken,
                   abs, wseq>>

\* save 52: table.insert returns.
SaveDone(c) ==
    /\ Replied(c) /\ cs[c].op = "save_insert"
    /\ cs' = [cs EXCEPT ![c].pc = "idle", ![c].op = "save", ![c].res = UnitResult(reply[c])]
    /\ reply' = [reply EXCEPT ![c] = NoReply]
    /\ UNCHANGED <<keyspace, warned, running, database, statics, parts, chan, wcur, nops,
                   sent, taken, abs, wseq>>

(***************************************************************************)
(* SpecSave: callers save items, one save at a time (concurrent index      *)
(* inserts are the subject of SpecIndex), while callers that have not      *)
(* saved look the index up.  Key 1 starts with the record "x", indexed     *)
(* under "a"; key 2 has no record and no index entry, or, in one start, a  *)
(* reverse entry that is not a string, so that its index insert fails.     *)
(***************************************************************************)
InitSave ==
    /\ keyspace = TRUE
    /\ \E corrupt \in BOOLEAN :
         LET e == {<<(<<97>>), 1>>}
             rev == ReverseOf(e)
             k2 == ToKeyString("u32", 2)
         IN  /\ abs = [t \in {TableP, FwdTable, RevTable} |->
                         IF t = TableP THEN [k \in {1} |-> RecordOf(k)]
                         ELSE IF t = FwdTable THEN ForwardOf(e)
                         ELSE IF corrupt
                           THEN [x \in DOMAIN rev \cup {k2} |-> IF x = k2 THEN <<>> ELSE rev[x]]
                         ELSE rev]
             /\ parts = [t \in {TableP, FwdTable, RevTable} |->
                           IF t = RevTable /\ corrupt
                             THEN EngineInsert(Stored(t, rev), AsBytes("String", k2),
                                               ValEncode("Unit", <<>>))
                             ELSE Stored(t, abs[t])]
    /\ chan = <<>>
    /\ wcur = NoAction
    /\ reply = [c \in Callers |-> NoReply]
    /\ cs = [c \in Callers |-> IdleCaller]
    /\ nops = 0
    /\ sent = 0
    /\ taken = 0
    /\ wseq = 0
    /\ StoreOpen

NextSave ==
    \/ WorkerTake
    \/ WorkerExec
    \/ \E c \in Callers :
         \/ SaveCall(c)
         \/ IndexInsertRevGot(c)
         \/ IndexInsertRemoved(c)
         \/ IndexInsertFwdDone(c)
         \/ IndexInsertDone(c)
         \/ SavePrimary(c)
         \/ SaveDone(c)
         \/ cs[c].kk # "save" /\ IndexGetCall(c)
         \/ IndexGetScanned(c)
         \/ IndexGetGot(c)

SpecSave == InitSave /\ [][NextSave]_vars

(***************************************************************************)
(* SpecSeqInsert: UniIndex::insert calls on the index "name" of a table    *)
(* "s" whose primary keys are Strings, run one at a time: a call that runs *)
(* alone is the composition of its engine calls (index.rs 56-63).  The     *)
(* index values and primary keys include strings that contain the          *)
(* separator.  abs holds, per primary key, the forward key of the most     *)
(* recent insert (history).                                                *)
(***************************************************************************)
FwdTableS == "s_index_name"
RevTableS == "s_index_name_rev"

\* Index values "a", "a\0b", "z" and primary keys "c", "b\0c".
SeqIndexValues == {<<97>>, <<97, 0, 98>>, <<122>>}
SeqPrimaryKeys == {<<99>>, <<98, 0, 99>>}

\* index.rs 61: format!("{value_str}\0{key_str}") for a String primary key.
IndexKeyS(v, pk) == ToKeyString("String", v) \o <<Separator>> \o ToKeyString("String", pk)

\* UniIndex::insert 56-63 run alone on the partitions ps: read the reverse
\* entry, remove the forward entry it names, insert the forward entry,
\* write the reverse entry.
IndexInsertAlone(ps, v, pk) ==
    LET ks == AsBytes("String", ToKeyString("String", pk))
        fk == IndexKeyS(v, pk)
        old == EngineGet(ps[RevTableS], ks)
        p1 == IF old.some
                THEN [ps EXCEPT ![FwdTableS] =
                         EngineRemove(@, AsBytes("String", ValDecode("String", old.val).val))]
                ELSE ps
        p2 == [p1 EXCEPT ![FwdTableS] =
                  EngineInsert(@, AsBytes("String", fk), ValEncode("Unit", <<>>))]
    IN  [p2 EXCEPT ![RevTableS] = EngineInsert(@, ks, ValEncode("String", fk))]

\* One whole UniIndex::insert(v, pk), which returns Ok.
SeqIndexInsert(c) ==
    /\ CanStartIndexOp(c)
    /\ \E v \in SeqIndexValues, pk \in SeqPrimaryKeys :
         /\ parts' = IndexInsertAlone(parts, v, pk)
         /\ abs' = [abs EXCEPT ![RevTableS] =
                       [x \in DOMAIN @ \cup {pk} |-> IF x = pk THEN IndexKeyS(v, pk) ELSE @[x]]]
         /\ cs' = [cs EXCEPT ![c] =
                      [Begin(c, "idx_insert", FwdTableS, pk, <<>>, "idle")
                          EXCEPT !.ival = v, !.res = Result("none", FALSE, <<>>, 0, <<>>, wseq + 1)]]
    /\ nops' = nops + 1
    /\ wseq' = wseq + 1
    /\ UNCHANGED <<keyspace, warned, running, database, statics, chan, wcur, reply, sent, taken>>

\* The index is empty, or holds what insert("a", "b\0c") left.
InitSeqInsert ==
    /\ keyspace = TRUE
    /\ \E first \in BOOLEAN :
         LET empty == [t \in {FwdTableS, RevTableS} |-> EmptyPartition] IN
         /\ parts = IF first THEN IndexInsertAlone(empty, <<97>>, <<98, 0, 99>>) ELSE empty
         /\ abs = [t \in {RevTableS} |->
                     IF first THEN [x \in {<<98, 0, 99>>} |-> IndexKeyS(<<97>>, <<98, 0, 99>>)]
                     ELSE <<>>]
    /\ chan = <<>>
    /\ wcur = NoAction
    /\ reply = [c \in Callers |-> NoReply]
    /\ cs = [c \in Callers |-> IdleCaller]
    /\ nops = 0
    /\ sent = 0
    /\ taken = 0
    /\ wseq = 0
    /\ StoreOpen

NextSeqInsert == \E c \in Callers : SeqIndexInsert(c)

SpecSeqInsert == InitSeqInsert /\ [][NextSeqInsert]_vars

(***************************************************************************)
(* UniIndex::get_first (index.rs 35-49).                                   *)
(***************************************************************************)
\* UniIndex::get_first 36: the prefix scan of the forward table starts.
IndexGetFirstCall(c) ==
    /\ CanStartIndexOp(c)
    /\ \E v \in IndexValues :
         cs' = [cs EXCEPT ![c] =
                   [Begin(c, "gf_scan", FwdTable, <<>>, <<>>, "scan") EXCEPT !.ival = v]]
    /\ nops' = nops + 1
    /\ UNCHANGED <<keyspace, warned, running, database, statics, parts, chan, wcur, reply, sent, taken, abs, wseq>>

\* UniIndex::get_first 36-45: no entry gives None; otherwise the first
\* forward key is split and parsed and its record is fetched.
IndexGetFirstScanned(c) ==
    /\ cs[c].pc = "scan" /\ cs[c].op = "gf_scan"
    /\ LET r == PrefixResult(FwdTable, ToKeyString("String", cs[c].ival)) IN
       IF ~r.ok THEN IndexReturn(c, "idx_get_first", r)
       ELSE IF r.ents = <<>>
         THEN IndexReturn(c, "idx_get_first", Result("none", FALSE, <<>>, 0, <<>>, r.at))
       ELSE LET sp == SplitOnce(r.ents[1][1])
                k == FromKeyString("u32", sp.right)
            IN  IF ~sp.found
                  THEN IndexReturn(c, "idx_get_first", Result("panic", FALSE, <<>>, 0, <<>>, r.at))
                ELSE IF ~k.ok
                  THEN IndexReturn(c, "idx_get_first", Result(k.err, FALSE, <<>>, 0, <<>>, r.at))
                ELSE /\ Send(GetAction(c, TableP, k.val))
                     /\ cs' = [cs EXCEPT ![c].pc = "wait", ![c].op = "gf_get",
                                          ![c].tbl = TableP, ![c].pk = k.val,
                                          ![c].res.at = r.at]
    /\ UNCHANGED <<keyspace, warned, running, database, statics, parts, wcur, nops, taken, abs, wseq>>

\* UniIndex::get_first 45-48: Some((key, value)) when the record exists,
\* None otherwise.
IndexGetFirstGot(c) ==
    /\ Replied(c) /\ cs[c].op = "gf_get"
    /\ LET r == GetResult(TableP, reply[c]) IN
       IF ~r.ok THEN IndexReturn(c, "idx_get_first", [r EXCEPT !.at = cs[c].res.at])
       ELSE IF r.some
         THEN IndexReturn(c, "idx_get_first",
                          Result("none", TRUE, <<>>, 0, <<(<<cs[c].pk, r.val>>)>>, cs[c].res.at))
       ELSE IndexReturn(c, "idx_get_first", Result("none", FALSE, <<>>, 0, <<>>, cs[c].res.at))
    /\ UNCHANGED <<keyspace, warned, running, database, statics, parts, wcur, nops, taken, abs, wseq>>

(***************************************************************************)
(* SpecFirst: get and get_first on tables that no caller changes.  The     *)
(* primary keys are 1, 2 and 10.  The runs start with all three indexed    *)
(* under "a", with and without the record of key 1 (UniTable::remove       *)
(* leaves the index entry behind); with 2 under "a" and 1 under "ab"; and  *)
(* with an empty index.                                                    *)
(***************************************************************************)
FirstKeys == {1, 2, 10}

InitFirstTables ==
    {[prim |-> FirstKeys, e |-> {<<(<<97>>), 1>>, <<(<<97>>), 2>>, <<(<<97>>), 10>>}],
     [prim |-> {2, 10},   e |-> {<<(<<97>>), 1>>, <<(<<97>>), 2>>, <<(<<97>>), 10>>}],
     [prim |-> FirstKeys, e |-> {<<(<<97>>), 2>>, <<(<<97, 98>>), 1>>}],
     [prim |-> FirstKeys, e |-> {}]}

InitFirst ==
    /\ keyspace = TRUE
    /\ \E t0 \in InitFirstTables :
         abs = [t \in {TableP, FwdTable, RevTable} |->
                  IF t = TableP THEN [k \in t0.prim |-> RecordOf(k)]
                  ELSE IF t = FwdTable THEN ForwardOf(t0.e) ELSE ReverseOf(t0.e)]
    /\ parts = [t \in {TableP, FwdTable, RevTable} |-> Stored(t, abs[t])]
    /\ chan = <<>>
    /\ wcur = NoAction
    /\ reply = [c \in Callers |-> NoReply]
    /\ cs = [c \in Callers |-> IdleCaller]
    /\ nops = 0
    /\ sent = 0
    /\ taken = 0
    /\ wseq = 0
    /\ StoreOpen

NextFirst ==
    \/ WorkerTake
    \/ WorkerExec
    \/ \E c \in Callers :
         \/ IndexGetCall(c)
         \/ IndexGetScanned(c)
         \/ IndexGetGot(c)
         \/ IndexGetFirstCall(c)
         \/ IndexGetFirstScanned(c)
         \/ IndexGetFirstGot(c)

SpecFirst == InitFirst /\ [][NextFirst]_vars

(***************************************************************************)
(* create_table (native.rs 344-394) on the partition "m".  A caller opens  *)
(* the table as (kk, vk), works on its rows while it holds the UniTable    *)
(* and drops it; the next create_table starts when no UniTable of "m" is   *)
(* held.  acc records the Actions the call has sent and whether it found   *)
(* the partition new or empty, ents the first entry it read.               *)
(***************************************************************************)
TableM == "m"
OpenKKinds == {"u32", "String"}
OpenVKinds == {"String", "Unit"}
OpenKeys(kk) == IF kk = "u32" THEN {1, 255} ELSE {<<97>>}
OpenValue(vk) == IF vk = "Unit" THEN <<>> ELSE <<120>>

CreateTableAction(c, name) == Action("CreateTable", name, <<>>, <<>>, c, <<>>, <<>>)
FirstKeyValueAction(c, tbl) == Action("FirstKeyValue", tbl, <<>>, <<>>, c, <<>>, <<>>)
DeleteTableAction(c, tbl) == Action("DeleteTable", tbl, <<>>, <<>>, c, <<>>, <<>>)

\* No create_table is in progress and no UniTable is held.
SessionFree == \A d \in Callers : cs[d].pc = "idle" /\ cs[d].phase = 0

\* create_table returns Err(err) or, with err "none", the UniTable.
OpenReturn(c, err, at) ==
    /\ cs' = [cs EXCEPT ![c].pc = "idle", ![c].op = "create_table",
                        ![c].res = Result(err, FALSE, <<>>, 0, <<>>, at),
                        ![c].ents = IF cs[c].op = "ct_first" /\ reply[c].some
                                      THEN reply[c].val ELSE cs[c].ents,
                        ![c].acc = IF err = "none" /\ cs[c].op = "ct_create"
                                     THEN Append(cs[c].acc, "new")
                                   ELSE IF err = "none" /\ cs[c].op = "ct_empty"
                                     THEN Append(cs[c].acc, "empty")
                                   ELSE cs[c].acc,
                        ![c].phase = IF err = "none" THEN 1 ELSE 0]
    /\ reply' = [reply EXCEPT ![c] = NoReply]
    /\ UNCHANGED <<chan, sent>>

\* create_table sends its next Action.
OpenSend(c, a, op) ==
    /\ Send(a)
    /\ cs' = [cs EXCEPT ![c].pc = "wait", ![c].op = op, ![c].acc = Append(cs[c].acc, a.tag)]

\* create_table 349: store.db.create_table(name)
OpenCall(c) ==
    /\ SessionFree /\ database /\ nops < MaxOpenOps
    /\ \E kk \in OpenKKinds, vk \in OpenVKinds, rif \in BOOLEAN :
         /\ Send(CreateTableAction(c, TableM))
         /\ cs' = [cs EXCEPT ![c] =
                      [Begin(c, "ct_create", TableM, <<>>, <<>>, "wait")
                          EXCEPT !.kk = kk, !.vk = vk, !.rif = rif, !.acc = <<"CreateTable">>]]
    /\ nops' = nops + 1
    /\ UNCHANGED <<keyspace, warned, running, database, statics, parts, wcur, taken, abs, wseq>>

\* create_table 349-358: a new partition is returned at once; otherwise ask
\* whether it is empty.
OpenCreated(c) ==
    /\ Replied(c) /\ cs[c].op = "ct_create"
    /\ IF reply[c].err # "none" THEN OpenReturn(c, reply[c].err, reply[c].at)
       ELSE IF reply[c].some THEN OpenReturn(c, "none", reply[c].at)
       ELSE OpenSend(c, IsTableEmptyAction(c, TableM), "ct_empty")
    /\ UNCHANGED <<keyspace, warned, running, database, statics, parts, wcur, nops, taken,
                   abs, wseq>>

\* create_table 350-361: an empty partition is returned at once; otherwise
\* read the first entry.
OpenEmptyKnown(c) ==
    /\ Replied(c) /\ cs[c].op = "ct_empty"
    /\ IF reply[c].err # "none" THEN OpenReturn(c, reply[c].err, reply[c].at)
       ELSE IF reply[c].some THEN OpenReturn(c, "none", reply[c].at)
       ELSE OpenSend(c, FirstKeyValueAction(c, TableM), "ct_first")
    /\ UNCHANGED <<keyspace, warned, running, database, statics, parts, wcur, nops, taken,
                   abs, wseq>>

\* A type check that reports a value that does not decode as a key mismatch.
TypeCheckKeyOnly(kk, vk, rif, key, val) ==
    IF FromBytes(kk, key).ok /\ ValDecode(vk, val).ok THEN "none"
    ELSE IF rif THEN "replace"
    ELSE "KeyTypeMismatch"

\* A type check that replaces the partition whenever replacing is allowed.
TypeCheckReplaceAlways(kk, vk, rif, key, val) ==
    IF rif THEN "replace"
    ELSE IF ~FromBytes(kk, key).ok THEN "KeyTypeMismatch"
    ELSE IF ~ValDecode(vk, val).ok THEN "ValueTypeMismatch"
    ELSE "none"

\* create_table 360-381, the check of the first entry (key, val) against
\* (K, V): "none" (the types match), "replace", or the error returned.
TypeCheck(kk, vk, rif, key, val) ==
    IF ~FromBytes(kk, key).ok /\ ~rif THEN "KeyTypeMismatch"
    ELSE IF ~ValDecode(vk, val).ok /\ ~rif THEN "ValueTypeMismatch"
    ELSE IF ~FromBytes(kk, key).ok \/ ~ValDecode(vk, val).ok THEN "replace"
    ELSE "none"

\* create_table 361-385: the first entry arrives and is checked.
OpenFirstKnown(c) ==
    /\ Replied(c) /\ cs[c].op = "ct_first"
    /\ IF reply[c].err # "none" THEN OpenReturn(c, reply[c].err, reply[c].at)
       ELSE IF ~reply[c].some THEN OpenReturn(c, "none", reply[c].at)
       ELSE LET t == TypeCheck(cs[c].kk, cs[c].vk, cs[c].rif, reply[c].val[1], reply[c].val[2])
            IN  IF t = "replace"
                  THEN /\ Send(DeleteTableAction(c, TableM))
                       /\ cs' = [cs EXCEPT ![c].pc = "wait", ![c].op = "ct_delete",
                                            ![c].ents = reply[c].val,
                                            ![c].acc = Append(cs[c].acc, "DeleteTable")]
                  ELSE OpenReturn(c, t, reply[c].at)
    /\ UNCHANGED <<keyspace, warned, running, database, statics, parts, wcur, nops, taken,
                   abs, wseq>>

\* create_table 383-384: the partition is deleted; create it again.
OpenDeleted(c) ==
    /\ Replied(c) /\ cs[c].op = "ct_delete"
    /\ IF reply[c].err # "none" THEN OpenReturn(c, reply[c].err, reply[c].at)
       ELSE OpenSend(c, CreateTableAction(c, TableM), "ct_recreate")
    /\ UNCHANGED <<keyspace, warned, running, database, statics, parts, wcur, nops, taken,
                   abs, wseq>>

\* create_table 384-393: the new partition is returned.
OpenRecreated(c) ==
    /\ Replied(c) /\ cs[c].op = "ct_recreate"
    /\ OpenReturn(c, reply[c].err, reply[c].at)
    /\ UNCHANGED <<keyspace, warned, running, database, statics, parts, wcur, nops, taken,
                   abs, wseq>>

\* The caller holds the UniTable that create_table returned.
Holds(c) == cs[c].pc = "idle" /\ cs[c].phase = 1

\* UniTable::insert of a row of the table's kinds (native::insert 396-409).
HolderInsert(c) ==
    /\ Holds(c) /\ nops < MaxOpenOps
    /\ \E k \in OpenKeys(cs[c].kk) :
         LET kb == AsBytes(cs[c].kk, k)
             vb == ValEncode(cs[c].vk, OpenValue(cs[c].vk))
         IN  StartOp(c, Action("Insert", TableM, kb, vb, c, kb, vb), "insert", kb, vb)

\* UniTable::remove of a key of the table's kind (native::remove 435-441).
HolderRemove(c) ==
    /\ Holds(c) /\ nops < MaxOpenOps
    /\ \E k \in OpenKeys(cs[c].kk) :
         LET kb == AsBytes(cs[c].kk, k)
         IN  StartOp(c, Action("Remove", TableM, kb, <<>>, c, kb, <<>>), "remove", kb, <<>>)

\* The caller drops its UniTable.
HolderClose(c) ==
    /\ Holds(c)
    /\ cs' = [cs EXCEPT ![c] = IdleCaller]
    /\ UNCHANGED <<keyspace, warned, running, database, statics, parts, chan, wcur, reply,
                   nops, sent, taken, abs, wseq>>

(***************************************************************************)
(* SpecOpen: create_table calls on partition "m", which starts absent or   *)
(* as a (u32, String) table left it, with the one row (255, "x").          *)
(***************************************************************************)
InitPartitionsM ==
    {[t \in {} |-> EmptyPartition],
     [t \in {TableM} |-> [b \in {AsBytes("u32", 255)} |-> ValEncode("String", <<120>>)]]}

InitOpen ==
    /\ keyspace = TRUE
    /\ parts \in InitPartitionsM
    /\ abs = parts
    /\ chan = <<>>
    /\ wcur = NoAction
    /\ reply = [c \in Callers |-> NoReply]
    /\ cs = [c \in Callers |-> IdleCaller]
    /\ nops = 0
    /\ sent = 0
    /\ taken = 0
    /\ wseq = 0
    /\ StoreOpen

NextOpen ==
    \/ WorkerTake
    \/ WorkerExec
    \/ \E c \in Callers :
         \/ OpenCall(c)
         \/ OpenCreated(c)
         \/ OpenEmptyKnown(c)
         \/ OpenFirstKnown(c)
         \/ OpenDeleted(c)
         \/ OpenRecreated(c)
         \/ HolderInsert(c)
         \/ HolderRemove(c)
         \/ HolderClose(c)
         \/ Recv(c)

SpecOpen == InitOpen /\ [][NextOpen]_vars

(***************************************************************************)
(* SpecDrop: Table operations on "t" whose caller may drop the pending     *)
(* call (the future, and with it the oneshot receiver) after the Action is *)
(* sent and before the reply arrives.  A caller that dropped a call makes  *)
(* no further call.                                                        *)
(***************************************************************************)
DropCall(c) ==
    /\ cs[c].pc = "wait" /\ reply[c] = NoReply
    /\ cs[c].op \in {"insert", "remove", "get"}
    /\ cs' = [cs EXCEPT ![c].pc = "dropped"]
    /\ UNCHANGED <<keyspace, warned, running, database, statics, parts, chan, wcur, reply,
                   nops, sent, taken, abs, wseq>>

NextDrop ==
    \/ WorkerTake
    \/ WorkerExec
    \/ \E c \in Callers :
         \/ CallInsert(c)
         \/ CallRemove(c)
         \/ CallGet(c)
         \/ Recv(c)
         \/ DropCall(c)

SpecDrop == Init /\ [][NextDrop]_vars

(***************************************************************************)
(* create_database (native.rs 326-342) and the end of the worker.          *)
(* UniStore::new starts a worker, sends CreateDb on the channel's only     *)
(* Sender and awaits the reply; the Sender ends up in the Database or is   *)
(* dropped with the failed call.                                           *)
(***************************************************************************)
\* What get_path and fjall's open give: success or one of the two errors.
OpenOutcomes == {"none", "Fjall", "DataDirNotFound"}

CreateDbAction(c, outcome) == Action("CreateDb", "", <<>>, <<>>, c, <<>>, outcome)

\* A create_database that wraps the Sender in a Database whatever the reply.
DatabaseAfterAnyReply(r) == TRUE

\* create_database 340-341: `resp_rx.await??; Ok(Database(tx))`.
DatabaseAfter(r) == r.err = "none"

\* A caller is inside create_database and holds the Sender.
Creating(c) == cs[c].pc = "wait" /\ cs[c].op = "cd_wait"

\* The channel has a Sender.
ChannelOpen == database \/ \E c \in Callers : Creating(c)

\* create_database 331-339: start_worker, then send CreateDb.  The model has
\* one worker at a time: the call starts when no worker runs.
NewStore(c) ==
    /\ cs[c].pc = "idle" /\ cs[c].phase = 0
    /\ ~running /\ ~database /\ nops < MaxOpenOps
    /\ \E outcome \in OpenOutcomes :
         /\ Send(CreateDbAction(c, outcome))
         /\ cs' = [cs EXCEPT ![c] = Begin(c, "cd_wait", "", outcome, <<>>, "wait")]
    /\ running' = TRUE
    /\ keyspace' = FALSE
    /\ nops' = nops + 1
    /\ UNCHANGED <<warned, database, statics, parts, wcur, taken, abs, wseq>>

\* create_database 340-341 and UniStore::new (lib.rs 110-121): the reply
\* arrives; an error is returned as it is and the Sender is dropped.
NewStoreReturn(c) ==
    /\ Replied(c) /\ cs[c].op = "cd_wait"
    /\ cs' = [cs EXCEPT ![c].pc = "idle", ![c].op = "create_database",
                        ![c].res = UnitResult(reply[c])]
    /\ database' = DatabaseAfter(reply[c])
    /\ reply' = [reply EXCEPT ![c] = NoReply]
    /\ UNCHANGED <<keyspace, warned, running, statics, parts, chan, wcur, nops, sent, taken,
                   abs, wseq>>

\* The caller drops create_database while it awaits the reply (340): the
\* future holds the receiver and the only Sender.
NewStoreDrop(c) ==
    /\ Creating(c) /\ reply[c] = NoReply
    /\ cs' = [cs EXCEPT ![c].pc = "dropped"]
    /\ UNCHANGED <<keyspace, warned, running, database, statics, parts, chan, wcur, reply,
                   nops, sent, taken, abs, wseq>>

\* start_worker 227, 305: block_on_stream(rx) ends when the channel is empty
\* and has no Sender; the thread returns and its `keyspace` is dropped.
WorkerStop ==
    /\ running /\ ~WorkerBusy /\ chan = <<>> /\ ~ChannelOpen
    /\ running' = FALSE
    /\ keyspace' = FALSE
    /\ UNCHANGED <<warned, database, statics, parts, chan, wcur, reply, cs, nops, sent, taken,
                   abs, wseq>>

(***************************************************************************)
(* SpecCreateDb: callers create the Store, retry when that fails, and open *)
(* tables on the Store they got.                                           *)
(***************************************************************************)
InitCreateDb ==
    /\ keyspace = FALSE
    /\ parts = [t \in {} |-> EmptyPartition]
    /\ abs = parts
    /\ chan = <<>>
    /\ wcur = NoAction
    /\ reply = [c \in Callers |-> NoReply]
    /\ cs = [c \in Callers |-> IdleCaller]
    /\ nops = 0
    /\ sent = 0
    /\ taken = 0
    /\ wseq = 0
    /\ warned = 0 /\ running = FALSE /\ database = FALSE /\ statics = NoStatics

NextCreateDb ==
    \/ WorkerTake
    \/ WorkerExec
    \/ WorkerStop
    \/ \E c \in Callers :
         \/ NewStore(c)
         \/ NewStoreReturn(c)
         \/ OpenCall(c)
         \/ OpenCreated(c)
         \/ OpenEmptyKnown(c)
         \/ HolderClose(c)

SpecCreateDb == InitCreateDb /\ [][NextCreateDb]_vars

(***************************************************************************)
(* SpecStoreLife: the whole life of a Store through the public API.  The   *)
(* data directory starts without partition "m" or with the one an earlier  *)
(* run left; callers create the Store (and may drop that call, or retry    *)
(* after a failure), open "m" as any (K, V), which may delete and recreate *)
(* it, and insert into it.                                                 *)
(***************************************************************************)
InitStoreLife ==
    /\ keyspace = FALSE
    /\ parts \in InitPartitionsM
    /\ abs = parts
    /\ chan = <<>>
    /\ wcur = NoAction
    /\ reply = [c \in Callers |-> NoReply]
    /\ cs = [c \in Callers |-> IdleCaller]
    /\ nops = 0
    /\ sent = 0
    /\ taken = 0
    /\ wseq = 0
    /\ warned = 0 /\ running = FALSE /\ database = FALSE /\ statics = NoStatics

NextStoreLife ==
    \/ WorkerTake
    \/ WorkerExec
    \/ WorkerStop
    \/ \E c \in Callers :
         \/ NewStore(c)
         \/ NewStoreReturn(c)
         \/ NewStoreDrop(c)
         \/ OpenCall(c)
         \/ OpenCreated(c)
         \/ OpenEmptyKnown(c)
         \/ OpenFirstKnown(c)
         \/ OpenDeleted(c)
         \/ OpenRecreated(c)
         \/ HolderInsert(c)
         \/ HolderClose(c)
         \/ Recv(c)

SpecStoreLife == InitStoreLife /\ [][NextStoreLife]_vars

(***************************************************************************)
(* The type-level accessors of a derived item type (item.rs 9-46 and the   *)
(* index_table the derive macro generates, unistore_derive 200-214).  The  *)
(* type declares one index, "name"; its table accessor has run, so table   *)
(* "p" exists.  index_table(name) matches the name against the declared    *)
(* indices: a declared one runs its static accessor (impl_index 300-318),  *)
(* which on first use opens the forward and the reverse table with         *)
(* create_index (index.rs 69-87); any other name is Err(MissingIndex).     *)
(* statics holds the accessor's slot (index) and its lock.  A caller's kk  *)
(* is the entry point it called, key the index name, ival the value.       *)
(***************************************************************************)
IndexNameDeclared == <<110, 97, 109, 101>>                    \* "name"
DeclaredIndexes == {IndexNameDeclared}
LookupNames == DeclaredIndexes \cup {<<110, 111, 112, 101>>, <<78, 97, 109, 101>>}   \* "nope", "Name"
ItemEntries == {"get_by_index", "get_first_by_index", "index_table"}

IndexTableMatchAny(name) == TRUE

\* `match index { "name" => .., _ => Err(MissingIndex(index)) }`
IndexTableMatch(name) == name \in DeclaredIndexes

\* index_table returned Ok(index): the entry point goes on with its lookup,
\* or returns the index.
ItemProceed(c) ==
    IF cs[c].kk = "index_table"
      THEN [cs[c] EXCEPT !.pc = "idle", !.op = "index_table",
                         !.res = Result("none", TRUE, <<>>, 0, <<>>, wseq)]
      ELSE [cs[c] EXCEPT !.pc = "scan", !.tbl = FwdTable,
                         !.op = IF cs[c].kk = "get_by_index" THEN "ig_scan" ELSE "gf_scan"]

\* get_by_index / get_first_by_index / index_table with an index name: an
\* undeclared name returns Err(MissingIndex(name)) at once; a declared one
\* enters the index accessor.
ItemCall(c, entry, name) ==
    /\ CanStartIndexOp(c)
    /\ \E v \in IndexValues :
         cs' = [cs EXCEPT ![c] =
                   IF IndexTableMatch(name)
                     THEN [Begin(c, "ix_get", "", name, <<>>, "accessor")
                              EXCEPT !.kk = entry, !.ival = v]
                     ELSE [Begin(c, entry, "", name, <<>>, "idle")
                              EXCEPT !.kk = entry, !.ival = v,
                                     !.res = Result("MissingIndex", FALSE, name, 0, <<>>, wseq)]]
    /\ nops' = nops + 1
    /\ UNCHANGED <<keyspace, warned, running, database, statics, parts, chan, wcur, reply,
                   sent, taken, abs, wseq>>

\* impl_index: `if let Some(index) = INDEX.get() { return Ok(index) }`
ItemIndexFirstGet(c) ==
    /\ cs[c].pc = "accessor" /\ cs[c].op = "ix_get"
    /\ cs' = [cs EXCEPT ![c] = IF statics.index THEN ItemProceed(c)
                                ELSE [cs[c] EXCEPT !.op = "ix_lock"]]
    /\ UNCHANGED <<keyspace, warned, running, database, statics, parts, chan, wcur, reply,
                   nops, sent, taken, abs, wseq>>

\* impl_index: the lock is taken and the slot read again; when it is still
\* empty, Self::table() returns the table and create_index opens the forward
\* table (index.rs 73-76).
ItemIndexLock(c) ==
    /\ cs[c].pc = "accessor" /\ cs[c].op = "ix_lock"
    /\ statics.lock = 0
    /\ IF statics.index
         THEN /\ cs' = [cs EXCEPT ![c] = ItemProceed(c)]
              /\ UNCHANGED <<statics, chan, sent, reply>>
         ELSE /\ statics' = [statics EXCEPT !.lock = c]
              /\ IndexSend(c, CreateTableAction(c, FwdTable), "ix_fwd")
    /\ UNCHANGED <<keyspace, warned, running, database, parts, wcur, nops, taken, abs, wseq>>

\* create_index 73-80: the forward table is open (create_table returns a new
\* table at once); the reverse table is opened.  A failure panics in the
\* accessor's expect.
ItemIndexFwdCreated(c) ==
    /\ Replied(c) /\ cs[c].op = "ix_fwd"
    /\ reply[c].err = "none" => reply[c].some
    /\ IF reply[c].err # "none"
         THEN /\ cs' = [cs EXCEPT ![c].pc = "panicked"]
              /\ statics' = [statics EXCEPT !.lock = 0]
              /\ UNCHANGED <<chan, sent, reply>>
         ELSE /\ IndexSend(c, CreateTableAction(c, RevTable), "ix_rev")
              /\ UNCHANGED statics
    /\ UNCHANGED <<keyspace, warned, running, database, parts, wcur, nops, taken, abs, wseq>>

\* create_index 80-86 and impl_index: the UniIndex is built and set in the
\* slot, the lock is released and index_table returns Ok(index).
ItemIndexRevCreated(c) ==
    /\ Replied(c) /\ cs[c].op = "ix_rev"
    /\ reply[c].err = "none" => reply[c].some
    /\ IF reply[c].err # "none"
         THEN /\ cs' = [cs EXCEPT ![c].pc = "panicked"]
              /\ statics' = [statics EXCEPT !.lock = 0]
         ELSE /\ cs' = [cs EXCEPT ![c] = ItemProceed(c)]
              /\ statics' = [index |-> TRUE, lock |-> 0]
    /\ reply' = [reply EXCEPT ![c] = NoReply]
    /\ UNCHANGED <<keyspace, warned, running, database, parts, chan, wcur, nops, sent,
                   taken, abs, wseq>>

(***************************************************************************)
(* SpecItem: callers of the type-level accessors, with declared and        *)
(* undeclared index names, from the first use of the index on.             *)
(***************************************************************************)
InitItem ==
    /\ keyspace = TRUE
    /\ abs = [t \in {TableP} |-> [k \in PKeys |-> RecordOf(k)]]
    /\ parts = [t \in {TableP} |-> Stored(t, abs[t])]
    /\ chan = <<>>
    /\ wcur = NoAction
    /\ reply = [c \in Callers |-> NoReply]
    /\ cs = [c \in Callers |-> IdleCaller]
    /\ nops = 0
    /\ sent = 0
    /\ taken = 0
    /\ wseq = 0
    /\ warned = 0 /\ running = TRUE /\ database = TRUE
    /\ statics = [index |-> FALSE, lock |-> 0]

NextItem ==
    \/ WorkerTake
    \/ WorkerExec
    \/ \E c \in Callers :
         \/ \E entry \in ItemEntries, name \in LookupNames : ItemCall(c, entry, name)
         \/ ItemIndexFirstGet(c)
         \/ ItemIndexLock(c)
         \/ ItemIndexFwdCreated(c)
         \/ ItemIndexRevCreated(c)
         \/ IndexGetScanned(c)
         \/ IndexGetFirstScanned(c)

SpecItem == InitItem /\ [][NextItem]_vars

(***************************************************************************)
(* UniTable::create_index (index.rs 68-88): two create_table calls with    *)
(* replace_if_incompatible = false, the forward table as (String, ()) and  *)
(* the reverse table as (String, String).  acc collects the names of the   *)
(* partitions opened so far; phase 1 marks a caller holding the UniIndex.  *)
(***************************************************************************)
IndexNameX == "name"

\* index.rs 73-75: format!("{}_index_{index}", self.name)
IndexTableName(t, x) == t \o "_index_" \o x

\* index.rs 77-79: format!("{}_index_{index}_rev", self.name)
RevIndexTableName(t, x) == t \o "_index_" \o x \o "_rev"

\* create_index returns Err(err) (the `?` of a create_table).
CreateIndexFail(c, err) ==
    /\ cs' = [cs EXCEPT ![c].pc = "idle", ![c].op = "create_index",
                        ![c].res = Result(err, FALSE, <<>>, 0, <<>>, reply[c].at),
                        ![c].phase = 0]
    /\ reply' = [reply EXCEPT ![c] = NoReply]
    /\ UNCHANGED <<chan, sent>>

\* A create_table of create_index has returned its table: open the reverse
\* table after the forward one (77-80), build the UniIndex after both (81-86).
CreateIndexOpened(c) ==
    IF cs[c].tbl = IndexTableName(TableP, IndexNameX)
      THEN /\ Send(CreateTableAction(c, RevIndexTableName(TableP, IndexNameX)))
           /\ cs' = [cs EXCEPT ![c].pc = "wait", ![c].op = "ci_create",
                               ![c].tbl = RevIndexTableName(TableP, IndexNameX),
                               ![c].acc = Append(cs[c].acc, cs[c].tbl)]
      ELSE /\ cs' = [cs EXCEPT ![c].pc = "idle", ![c].op = "create_index",
                               ![c].res = Result("none", FALSE, <<>>, 0, <<>>, reply[c].at),
                               ![c].acc = Append(cs[c].acc, cs[c].tbl),
                               ![c].phase = 1]
           /\ reply' = [reply EXCEPT ![c] = NoReply]
           /\ UNCHANGED <<chan, sent>>

\* create_index 72-75: create_table of the forward table (native.rs 349).
CreateIndexCall(c) ==
    /\ CanStartIndexOp(c) /\ database
    /\ Send(CreateTableAction(c, IndexTableName(TableP, IndexNameX)))
    /\ cs' = [cs EXCEPT ![c] =
                 [Begin(c, "ci_create", IndexTableName(TableP, IndexNameX), <<>>, <<>>, "wait")
                     EXCEPT !.phase = 0]]
    /\ nops' = nops + 1
    /\ UNCHANGED <<keyspace, warned, running, database, statics, parts, wcur, taken, abs, wseq>>

\* create_table 349-358 inside create_index: a new partition is returned at
\* once; otherwise ask whether it is empty.
CreateIndexCreated(c) ==
    /\ Replied(c) /\ cs[c].op = "ci_create"
    /\ IF reply[c].err # "none" THEN CreateIndexFail(c, reply[c].err)
       ELSE IF reply[c].some THEN CreateIndexOpened(c)
       ELSE IndexSend(c, IsTableEmptyAction(c, cs[c].tbl), "ci_empty")
    /\ UNCHANGED <<keyspace, warned, running, database, statics, parts, wcur, nops, taken,
                   abs, wseq>>

\* create_table 350-361 inside create_index: an empty partition is returned
\* at once; otherwise read the first entry.
CreateIndexEmptyKnown(c) ==
    /\ Replied(c) /\ cs[c].op = "ci_empty"
    /\ IF reply[c].err # "none" THEN CreateIndexFail(c, reply[c].err)
       ELSE IF reply[c].some THEN CreateIndexOpened(c)
       ELSE IndexSend(c, FirstKeyValueAction(c, cs[c].tbl), "ci_first")
    /\ UNCHANGED <<keyspace, warned, running, database, statics, parts, wcur, nops, taken,
                   abs, wseq>>

\* create_table 361-393 inside create_index: the first entry is checked
\* against (String, ()) or (String, String); replace_if_incompatible is
\* false, so a mismatch is returned and nothing is deleted.
CreateIndexFirstKnown(c) ==
    /\ Replied(c) /\ cs[c].op = "ci_first"
    /\ IF reply[c].err # "none" THEN CreateIndexFail(c, reply[c].err)
       ELSE IF ~reply[c].some THEN CreateIndexOpened(c)
       ELSE LET t == TypeCheck(KKind(cs[c].tbl), VKind(cs[c].tbl), FALSE,
                               reply[c].val[1], reply[c].val[2])
            IN  IF t = "none" THEN CreateIndexOpened(c) ELSE CreateIndexFail(c, t)
    /\ UNCHANGED <<keyspace, warned, running, database, statics, parts, wcur, nops, taken,
                   abs, wseq>>

(***************************************************************************)
(* SpecCreateIndex: create_index("name") on table "p", whose index         *)
(* partitions start absent or as an earlier create_index and index inserts *)
(* left them, and index inserts by the callers that hold the UniIndex.     *)
(***************************************************************************)
InitCreateIndex ==
    /\ keyspace = TRUE
    /\ \E e \in {{}} \cup InitIndexed, present \in BOOLEAN :
         /\ e # {} => present
         /\ abs = [t \in IF present THEN {TableP, FwdTable, RevTable} ELSE {TableP} |->
                     IF t = TableP THEN [k \in PKeys |-> RecordOf(k)]
                     ELSE IF t = FwdTable THEN ForwardOf(e) ELSE ReverseOf(e)]
    /\ parts = [t \in DOMAIN abs |-> Stored(t, abs[t])]
    /\ chan = <<>>
    /\ wcur = NoAction
    /\ reply = [c \in Callers |-> NoReply]
    /\ cs = [c \in Callers |-> IdleCaller]
    /\ nops = 0
    /\ sent = 0
    /\ taken = 0
    /\ wseq = 0
    /\ StoreOpen

NextCreateIndex ==
    \/ WorkerTake
    \/ WorkerExec
    \/ \E c \in Callers :
         \/ CreateIndexCall(c)
         \/ CreateIndexCreated(c)
         \/ CreateIndexEmptyKnown(c)
         \/ CreateIndexFirstKnown(c)
         \/ Holds(c) /\ IndexInsertCall(c)
         \/ IndexInsertRevGot(c)
         \/ IndexInsertRemoved(c)
         \/ IndexInsertFwdDone(c)
         \/ IndexInsertDone(c)

SpecCreateIndex == InitCreateIndex /\ [][NextCreateIndex]_vars

(***************************************************************************)
(* The bounded channel (futures mpsc::channel(16), native.rs 224) with     *)
(* more callers than buffer slots.  Every Database method sends on a fresh *)
(* clone of the Sender: the clone is not parked, so poll_ready is Ready    *)
(* and start_send enqueues the Action; when that makes more than           *)
(* ChannelBuffer messages, the Sender parks and the flush of `send` stays  *)
(* pending until the Receiver unparks it.                                  *)
(***************************************************************************)
ChannelBuffer == 16

Senders == 1..NumSenders

\* Database::insert 93-104 with the Sender's bookkeeping: each caller makes
\* the same insert.  The callers are interchangeable; they are numbered in
\* the order in which they send.
SendBounded(c) ==
    /\ cs[c].pc = "idle" /\ cs[c].op = "none"
    /\ \A d \in Senders : d < c => cs[d].op # "none"
    /\ Send(InsertAction(c, TableT, <<97>>, <<120>>))
    /\ cs' = [cs EXCEPT ![c] =
                 [Begin(c, "insert", TableT, <<97>>, <<120>>,
                        IF Len(chan) + 1 > ChannelBuffer THEN "parked" ELSE "wait")
                     EXCEPT !.pk = sent + 1]]
    /\ nops' = nops + 1
    /\ UNCHANGED <<keyspace, warned, running, database, statics, parts, wcur, taken, abs, wseq>>

\* The reply arrives and the insert returns; the callers return in the order
\* in which they sent.
RecvInOrder(c) ==
    /\ \A d \in Senders : d < c => Done(d, "insert")
    /\ Recv(c)

(***************************************************************************)
(* SpecChannel: NumSenders callers insert into the empty table "t".        *)
(***************************************************************************)
InitChannel ==
    /\ keyspace = TRUE
    /\ abs = [t \in {TableT} |-> <<>>]
    /\ parts = [t \in {TableT} |-> EmptyPartition]
    /\ chan = <<>>
    /\ wcur = NoAction
    /\ reply = [c \in Senders |-> NoReply]
    /\ cs = [c \in Senders |-> IdleCaller]
    /\ nops = 0
    /\ sent = 0
    /\ taken = 0
    /\ wseq = 0
    /\ StoreOpen

NextChannel ==
    \/ WorkerTake
    \/ WorkerExec
    \/ \E c \in Senders :
         \/ SendBounded(c)
         \/ RecvInOrder(c)

SpecChannel == InitChannel /\ [][NextChannel]_vars

(***************************************************************************)
(* The static singleton accessors: static_store! (lib.rs 221-243),         *)
(* static_table! (lib.rs 194-219) and the derive macro's table and index   *)
(* accessors (unistore_derive 275-318) share one pattern:                  *)
(*     if let Some(x) = SLOT.get() { return x }                            *)
(*     let _lock = INITIALIZING.lock().await;                              *)
(*     if let Some(x) = SLOT.get() { return x }                            *)
(*     let x = <construction>.await.expect(..);                            *)
(*     SLOT.set(x).expect(..);                                             *)
(*     SLOT.get().unwrap()                                                 *)
(* The "store" accessor constructs with UniStore::new; the "table"         *)
(* accessor first awaits the store accessor and then constructs with       *)
(* create_table (an index accessor does the same with the table accessor   *)
(* and create_index).                                                      *)
(*                                                                         *)
(* statics holds the slots (cell: 0 is empty, else the number of the       *)
(* construction that made the instance), the INITIALIZING locks            *)
(* (0 is free, else the caller holding it), every caller's stack of        *)
(* accessor frames, and history counters.  A failed expect panics.  The    *)
(* panic either unwinds the caller's task, which drops its frames and with *)
(* them the lock guards (async_std's Mutex is not poisoned), or, in a      *)
(* build without unwinding, ends the task where it stands, its guards      *)
(* never dropped: statics.unwind is the build's panic strategy.            *)
(***************************************************************************)
Accessors == {"store", "table", "index"}

\* An initialisation in which the store accessor awaits the index accessor.
DependsOnCyclic(acc) ==
    IF acc = "index" THEN "table" ELSE IF acc = "table" THEN "store" ELSE "index"

\* The accessor that the construction of acc awaits first: `Self::table()`
\* in impl_index, `$get_store()` in static_table! and impl_table; none for
\* the store.
DependsOn(acc) ==
    IF acc = "index" THEN "table" ELSE IF acc = "table" THEN "store" ELSE "none"

Frame(acc, pc, inst) == [acc |-> acc, pc |-> pc, inst |-> inst]

\* The accessor frame a caller is executing.
Top(s, c) == s.stack[c][Len(s.stack[c])]

\* Caller c is alive and at position pc of its top frame.
InFrame(c, pc) == ~statics.dead[c] /\ statics.stack[c] # <<>> /\ Top(statics, c).pc = pc

SetTop(s, c, f) == [s EXCEPT !.stack[c][Len(s.stack[c])] = f]

\* The construction of acc begins in the caller's top frame.
BeginConstruction(s, c, acc) ==
    SetTop([s EXCEPT !.built[acc] = @ + 1], c, Frame(acc, "new", s.built[acc] + 1))

\* `return x` of the accessor in the caller's top frame: the frame ends, its
\* lock guard (if it took the lock) is dropped, and the code that awaited
\* the accessor goes on: the table accessor begins create_table, the index
\* accessor create_index.
ReturnFrom(s, c, unlock) ==
    LET acc  == Top(s, c).acc
        rest == SubSeq(s.stack[c], 1, Len(s.stack[c]) - 1)
        s1   == [s EXCEPT !.stack[c] = rest,
                          !.ret[acc] = @ \cup {s.cell[acc]},
                          !.lock[acc] = IF unlock THEN 0 ELSE @]
    IN  IF rest = <<>> THEN s1 ELSE BeginConstruction(s1, c, rest[Len(rest)].acc)

LocksAfterPanicReleased(s, c) == [a \in Accessors |-> IF s.lock[a] = c THEN 0 ELSE s.lock[a]]

\* The locks after caller c panicked: unwinding drops the guards c holds.
LocksAfterPanic(s, c) ==
    IF s.unwind THEN [a \in Accessors |-> IF s.lock[a] = c THEN 0 ELSE s.lock[a]]
    ELSE s.lock

\* A failed expect in caller c.
Panic(s, c) ==
    [s EXCEPT !.lock = LocksAfterPanic(s, c),
              !.stack[c] = IF s.unwind THEN <<>> ELSE @,
              !.dead[c] = ~s.unwind]

StaticStep(s) ==
    /\ statics' = s
    /\ UNCHANGED <<keyspace, warned, running, database, parts, chan, wcur, reply, cs,
                   nops, sent, taken, abs, wseq>>

\* A task calls an accessor.
StaticCall(c, acc) ==
    /\ statics.stack[c] = <<>> /\ ~statics.dead[c]
    /\ nops < MaxStaticCalls
    /\ statics' = [statics EXCEPT !.stack[c] = <<Frame(acc, "get", 0)>>]
    /\ nops' = nops + 1
    /\ UNCHANGED <<keyspace, warned, running, database, parts, chan, wcur, reply, cs,
                   sent, taken, abs, wseq>>

\* if let Some(x) = SLOT.get() { return x }
StaticFirstGet(c) ==
    /\ InFrame(c, "get")
    /\ LET acc == Top(statics, c).acc
       IN  StaticStep(IF statics.cell[acc] # 0 THEN ReturnFrom(statics, c, FALSE)
                      ELSE SetTop(statics, c, Frame(acc, "lock", 0)))

\* let _lock = INITIALIZING.lock().await
StaticLock(c) ==
    /\ InFrame(c, "lock")
    /\ LET acc == Top(statics, c).acc
       IN  /\ statics.lock[acc] = 0
           /\ StaticStep(SetTop([statics EXCEPT !.lock[acc] = c], c, Frame(acc, "get2", 0)))

SecondCheckSkipped(s, acc) == FALSE

\* The second `SLOT.get()`, made under the lock.
SecondCheck(s, acc) == s.cell[acc] # 0

\* if let Some(x) = SLOT.get() { return x }; otherwise the construction
\* begins: UniStore::new, or the accessor it depends on is awaited first.
StaticSecondGet(c) ==
    /\ InFrame(c, "get2")
    /\ LET acc == Top(statics, c).acc
       IN  StaticStep(
             IF SecondCheck(statics, acc)
             THEN ReturnFrom([statics EXCEPT !.late[acc] = @ + 1], c, TRUE)
             ELSE IF DependsOn(acc) # "none"
                  THEN [SetTop(statics, c, Frame(acc, "dep", 0))
                           EXCEPT !.stack[c] = Append(@, Frame(DependsOn(acc), "get", 0))]
                  ELSE BeginConstruction(statics, c, acc))

\* The construction ends: `.expect(..)` passes the instance on or panics.
StaticConstructed(c, ok) ==
    /\ InFrame(c, "new")
    /\ LET f == Top(statics, c)
       IN  StaticStep(
             IF ok THEN SetTop(statics, c, Frame(f.acc, "set", f.inst))
             ELSE Panic([statics EXCEPT !.fails[f.acc] = @ + 1,
                                        !.failedAt[f.acc] = statics.built[f.acc]], c))

\* SLOT.set(x).expect(..): OnceLock::set fails when the slot is already set.
StaticSet(c) ==
    /\ InFrame(c, "set")
    /\ LET f == Top(statics, c)
       IN  StaticStep(
             IF statics.cell[f.acc] = 0
             THEN SetTop([statics EXCEPT !.cell[f.acc] = f.inst, !.sets[f.acc] = @ + 1],
                         c, Frame(f.acc, "ret", f.inst))
             ELSE Panic([statics EXCEPT !.setfails[f.acc] = @ + 1], c))

\* SLOT.get().unwrap(), the accessor's value; _lock is dropped.
StaticReturn(c) ==
    /\ InFrame(c, "ret")
    /\ StaticStep(ReturnFrom(statics, c, TRUE))

(***************************************************************************)
(* SpecStatic: tasks call the store and the table accessor.                *)
(***************************************************************************)
InitStatics(unwind) ==
    [unwind |-> unwind,
     cell |-> [a \in Accessors |-> 0], lock |-> [a \in Accessors |-> 0],
     built |-> [a \in Accessors |-> 0], fails |-> [a \in Accessors |-> 0],
     failedAt |-> [a \in Accessors |-> 0], sets |-> [a \in Accessors |-> 0],
     setfails |-> [a \in Accessors |-> 0], late |-> [a \in Accessors |-> 0],
     ret |-> [a \in Accessors |-> {}],
     stack |-> [c \in Callers |-> <<>>], dead |-> [c \in Callers |-> FALSE]]

InitStatic ==
    /\ keyspace = FALSE
    /\ parts = [t \in {} |-> EmptyPartition]
    /\ abs = parts
    /\ chan = <<>>
    /\ wcur = NoAction
    /\ reply = [c \in Callers |-> NoReply]
    /\ cs = [c \in Callers |-> IdleCaller]
    /\ nops = 0
    /\ sent = 0
    /\ taken = 0
    /\ wseq = 0
    /\ warned = 0 /\ running = FALSE /\ database = FALSE
    /\ \E unwind \in BOOLEAN : statics = InitStatics(unwind)

NextStatic ==
    \E c \in Callers :
        \/ \E acc \in {"store", "table"} : StaticCall(c, acc)
        \/ StaticFirstGet(c)
        \/ StaticLock(c)
        \/ StaticSecondGet(c)
        \/ \E ok \in BOOLEAN : StaticConstructed(c, ok)
        \/ StaticSet(c)
        \/ StaticReturn(c)

SpecStatic == InitStatic /\ [][NextStatic]_vars

(***************************************************************************)
(* SpecNested: tasks call the index, the table and the store accessor of   *)
(* one item type.  SpecNestedFair adds the scheduling: the executor keeps  *)
(* polling every task that can take a step, and a task waiting for an      *)
(* INITIALIZING lock gets it if the lock is free again and again           *)
(* (async_std's Mutex wakes a waiter at every unlock).                     *)
(***************************************************************************)
NestedStep(c) ==
    \/ StaticFirstGet(c)
    \/ StaticSecondGet(c)
    \/ \E ok \in BOOLEAN : StaticConstructed(c, ok)
    \/ StaticSet(c)
    \/ StaticReturn(c)

MaxNestedCalls == 2

NextNested ==
    \E c \in Callers :
        \/ \E acc \in Accessors : nops < MaxNestedCalls /\ StaticCall(c, acc)
        \/ StaticLock(c)
        \/ NestedStep(c)

SpecNested == InitStatic /\ [][NextNested]_vars

SpecNestedFair ==
    /\ SpecNested
    /\ \A c \in Callers : WF_vars(NestedStep(c)) /\ SF_vars(StaticLock(c))

(***************************************************************************)
(* SpecKeys: the Key trait (key.rs) applied to keys of every kind.  One    *)
(* caller holds a key k of kind kk and encodes it, then decodes the        *)
(* encoding.  Kinds wider than 31 bits are sampled up to 999999999.        *)
(***************************************************************************)
KeyKinds == {"String"} \cup IntKinds

KeySamples(kind) ==
    CASE kind = "String" ->
           {<<>>, <<97>>, <<97, 98>>, <<0>>, <<49, 50>>, <<45, 49>>, <<233>>, <<8364>>,
            <<128512, 97>>, <<127, 128, 2047, 2048, 65535, 65536, 1114111>>}
      [] kind = "u8" -> {0, 1, 9, 10, 127, 128, 255}
      [] kind = "u16" -> {0, 1, 255, 256, 32768, 65535}
      [] kind \in {"u32", "u64"} -> {0, 1, 255, 256, 65536, 16777216, 999999999}
      [] kind = "i8" -> {-128, -127, -1, 0, 1, 127}
      [] kind = "i16" -> {-32768, -129, -1, 0, 1, 32767}
      [] kind \in {"i32", "i64"} -> {-999999999, -65536, -1, 0, 1, 999999999}

KeyUsers == {1}

\* Key::as_bytes on the caller's key.
KeyAsBytes(c) ==
    /\ cs[c].pc = "idle" /\ cs[c].op = "none"
    /\ cs' = [cs EXCEPT ![c].op = "as_bytes", ![c].val = AsBytes(cs[c].kk, cs[c].key)]
    /\ UNCHANGED <<keyspace, warned, running, database, statics, parts, chan, wcur, reply,
                   nops, sent, taken, abs, wseq>>

\* Key::from_bytes on the bytes as_bytes returned.
KeyFromBytes(c) ==
    /\ cs[c].op = "as_bytes"
    /\ cs' = [cs EXCEPT ![c].op = "from_bytes", ![c].res = FromBytes(cs[c].kk, cs[c].val)]
    /\ UNCHANGED <<keyspace, warned, running, database, statics, parts, chan, wcur, reply,
                   nops, sent, taken, abs, wseq>>

\* Key::to_key_string on the caller's key.
KeyToKeyString(c) ==
    /\ cs[c].pc = "idle" /\ cs[c].op = "none"
    /\ cs' = [cs EXCEPT ![c].op = "to_key_string",
                         ![c].val = ToKeyString(cs[c].kk, cs[c].key)]
    /\ UNCHANGED <<keyspace, warned, running, database, statics, parts, chan, wcur, reply,
                   nops, sent, taken, abs, wseq>>

\* Key::from_key_string on the string to_key_string returned.
KeyFromKeyString(c) ==
    /\ cs[c].op = "to_key_string"
    /\ cs' = [cs EXCEPT ![c].op = "from_key_string",
                         ![c].res = FromKeyString(cs[c].kk, cs[c].val)]
    /\ UNCHANGED <<keyspace, warned, running, database, statics, parts, chan, wcur, reply,
                   nops, sent, taken, abs, wseq>>

InitKeys ==
    /\ keyspace = TRUE
    /\ parts = <<>>
    /\ abs = <<>>
    /\ chan = <<>>
    /\ wcur = NoAction
    /\ reply = [c \in KeyUsers |-> NoReply]
    /\ \E kind \in KeyKinds : \E k \in KeySamples(kind) :
         cs = [c \in KeyUsers |-> [IdleCaller EXCEPT !.kk = kind, !.key = k]]
    /\ nops = 0
    /\ sent = 0
    /\ taken = 0
    /\ wseq = 0
    /\ StoreOpen

NextKeys ==
    \E c \in KeyUsers :
        \/ KeyAsBytes(c)
        \/ KeyFromBytes(c)
        \/ KeyToKeyString(c)
        \/ KeyFromKeyString(c)

SpecKeys == InitKeys /\ [][NextKeys]_vars

(***************************************************************************)
(* SpecKeyOrder: Key::as_bytes applied to two keys a and b of one kind,    *)
(* and the byte-lexicographic comparison of the two encodings (the order   *)
(* in which the engine keeps keys).                                        *)
(***************************************************************************)
\* Key::as_bytes on the caller's two keys (key, ival).
KeyOrderEncode(c) ==
    /\ cs[c].pc = "idle" /\ cs[c].op = "none"
    /\ cs' = [cs EXCEPT ![c].op = "encoded",
                         ![c].val = AsBytes(cs[c].kk, cs[c].key),
                         ![c].ents = <<AsBytes(cs[c].kk, cs[c].ival)>>]
    /\ UNCHANGED <<keyspace, warned, running, database, statics, parts, chan, wcur, reply,
                   nops, sent, taken, abs, wseq>>

\* The engine's comparison of the two encodings: res.ok is "the first sorts
\* before the second".
KeyOrderCompare(c) ==
    /\ cs[c].op = "encoded"
    /\ cs' = [cs EXCEPT ![c].op = "compared",
                         ![c].res = [ok |-> BytesLess(cs[c].val, cs[c].ents[1]),
                                     err |-> "none", val |-> 0]]
    /\ UNCHANGED <<keyspace, warned, running, database, statics, parts, chan, wcur, reply,
                   nops, sent, taken, abs, wseq>>

InitKeyOrder ==
    /\ keyspace = TRUE
    /\ parts = <<>>
    /\ abs = <<>>
    /\ chan = <<>>
    /\ wcur = NoAction
    /\ reply = [c \in KeyUsers |-> NoReply]
    /\ \E kind \in KeyKinds : \E a \in KeySamples(kind) : \E b \in KeySamples(kind) :
         cs = [c \in KeyUsers |-> [IdleCaller EXCEPT !.kk = kind, !.key = a, !.ival = b]]
    /\ nops = 0
    /\ sent = 0
    /\ taken = 0
    /\ wseq = 0
    /\ StoreOpen

NextKeyOrder ==
    \E c \in KeyUsers :
        \/ KeyOrderEncode(c)
        \/ KeyOrderCompare(c)

SpecKeyOrder == InitKeyOrder /\ [][NextKeyOrder]_vars

(***************************************************************************)
(* SpecDecode: Key::from_bytes and Key::from_key_string applied to inputs  *)
(* that no encoder produced.                                               *)
(***************************************************************************)
\* Strings that are decimal numerals, with the number each denotes and
\* whether it is written with a minus sign.
Numerals ==
    {[s |-> <<48>>, v |-> 0, neg |-> FALSE],
     [s |-> <<55>>, v |-> 7, neg |-> FALSE],
     [s |-> <<48, 48, 55>>, v |-> 7, neg |-> FALSE],
     [s |-> <<43, 53>>, v |-> 5, neg |-> FALSE],
     [s |-> <<45, 49>>, v |-> -1, neg |-> TRUE],
     [s |-> <<45, 48>>, v |-> 0, neg |-> TRUE],
     [s |-> <<49, 50, 55>>, v |-> 127, neg |-> FALSE],
     [s |-> <<49, 50, 56>>, v |-> 128, neg |-> FALSE],
     [s |-> <<45, 49, 50, 56>>, v |-> -128, neg |-> TRUE],
     [s |-> <<45, 49, 50, 57>>, v |-> -129, neg |-> TRUE],
     [s |-> <<50, 53, 53>>, v |-> 255, neg |-> FALSE],
     [s |-> <<50, 53, 54>>, v |-> 256, neg |-> FALSE],
     [s |-> <<51, 50, 55, 54, 55>>, v |-> 32767, neg |-> FALSE],
     [s |-> <<51, 50, 55, 54, 56>>, v |-> 32768, neg |-> FALSE],
     [s |-> <<45, 51, 50, 55, 54, 56>>, v |-> -32768, neg |-> TRUE],
     [s |-> <<45, 51, 50, 55, 54, 57>>, v |-> -32769, neg |-> TRUE],
     [s |-> <<54, 53, 53, 51, 53>>, v |-> 65535, neg |-> FALSE],
     [s |-> <<54, 53, 53, 51, 54>>, v |-> 65536, neg |-> FALSE],
     [s |-> <<57, 57, 57, 57, 57, 57, 57, 57, 57>>, v |-> 999999999, neg |-> FALSE],
     [s |-> <<45, 57, 57, 57, 57, 57, 57, 57, 57, 57>>, v |-> -999999999, neg |-> TRUE]}

\* Strings that are not decimal numerals.
NotNumerals == {<<>>, <<97>>, <<49, 97>>, <<32, 49>>, <<49, 32>>, <<45>>, <<43>>, <<49, 46, 48>>, <<45, 45, 49>>, <<43, 45, 49>>, <<48, 120, 49>>}

\* Byte strings that are not well-formed UTF-8: a byte no sequence starts
\* with, an overlong form, a surrogate, a truncated sequence.
IllFormedUtf8 == {<<255>>, <<255, 127>>, <<192, 128>>, <<237, 160, 128>>, <<226, 130>>}

DecodeInputs ==
    {n.s : n \in Numerals} \cup NotNumerals \cup IllFormedUtf8
        \cup {<<1>>, <<0, 1>>, <<0, 0, 0, 1>>, <<0, 0, 0, 0, 0, 0, 0, 1>>, <<1, 2, 3>>,
              <<226, 130, 172>>}

\* Key::from_bytes on the caller's input.
DecodeFromBytes(c) ==
    /\ cs[c].pc = "idle" /\ cs[c].op = "none"
    /\ cs' = [cs EXCEPT ![c].op = "from_bytes", ![c].res = FromBytes(cs[c].kk, cs[c].key)]
    /\ UNCHANGED <<keyspace, warned, running, database, statics, parts, chan, wcur, reply,
                   nops, sent, taken, abs, wseq>>

\* Key::from_key_string on the caller's input.
DecodeFromKeyString(c) ==
    /\ cs[c].pc = "idle" /\ cs[c].op = "none"
    /\ cs' = [cs EXCEPT ![c].op = "from_key_string",
                         ![c].res = FromKeyString(cs[c].kk, cs[c].key)]
    /\ UNCHANGED <<keyspace, warned, running, database, statics, parts, chan, wcur, reply,
                   nops, sent, taken, abs, wseq>>

InitDecode ==
    /\ keyspace = TRUE
    /\ parts = <<>>
    /\ abs = <<>>
    /\ chan = <<>>
    /\ wcur = NoAction
    /\ reply = [c \in KeyUsers |-> NoReply]
    /\ \E kind \in KeyKinds : \E x \in DecodeInputs :
         cs = [c \in KeyUsers |-> [IdleCaller EXCEPT !.kk = kind, !.key = x]]
    /\ nops = 0
    /\ sent = 0
    /\ taken = 0
    /\ wseq = 0
    /\ StoreOpen

NextDecode ==
    \E c \in KeyUsers :
        \/ DecodeFromBytes(c)
        \/ DecodeFromKeyString(c)

SpecDecode == InitDecode /\ [][NextDecode]_vars

(***************************************************************************)
(* Claims about the worker and the Table operations, under Spec.           *)
(***************************************************************************)
\* An engine call is in progress on the worker thread.
WorkerInEngine == WorkerBusy
\* An engine call is in progress on the thread of caller c.
CallerInEngine(c) == cs[c].pc = "scan"

\* C1: at any instant at most one engine call is in progress on a Store: the
\* worker's, and never one made by a caller's own thread.
C1_OneEngineCallAtATime ==
    /\ \A c \in Callers : ~(WorkerInEngine /\ CallerInEngine(c))
    /\ \A c, d \in Callers : CallerInEngine(c) /\ CallerInEngine(d) => c = d

\* C2: the worker takes the Actions in the order they were sent: the k-th
\* Action it takes is the k-th Action sent, and the channel holds the Actions
\* sent and not yet taken in send order.
C2_FifoOrder ==
    /\ WorkerBusy => wcur.seq = taken
    /\ \A i \in 1..Len(chan) : chan[i].seq = taken + i
    /\ taken + Len(chan) = sent

\* C2 witness: the worker executes the second Action sent while a third waits.
C2_Witness == WorkerBusy /\ wcur.seq = 2 /\ Len(chan) >= 1


\* C5: get(K) returns the value of the latest executed insert(K, V) as long as
\* no later write has been executed, contains(K) is then true, and for a key
\* that is not stored (never inserted, or removed) get returns None and
\* contains false; neither is an error.
C5_GetReturnsInserted ==
    \A c \in Callers :
        (Done(c, "get") \/ Done(c, "contains")) /\ cs[c].res.at = wseq =>
            /\ cs[c].res.ok
            /\ cs[c].res.some <=> cs[c].key \in DOMAIN abs[TableT]
            /\ Done(c, "get") /\ cs[c].res.some => cs[c].res.val = abs[TableT][cs[c].key]

\* C5 witness: insert("a", "y") has completed and a get("a") executed right
\* after it has returned "y".
C5_Witness ==
    \E c, d \in Callers :
        /\ Done(c, "insert") /\ cs[c].res.ok
        /\ cs[c].key = <<97>> /\ cs[c].val = <<121>>
        /\ Done(d, "get") /\ cs[d].key = <<97>>
        /\ cs[d].res.at = cs[c].res.at
        /\ cs[d].res.some /\ cs[d].res.val = <<121>>

\* C6: the partition always holds exactly one entry per key written and not
\* removed, carrying the encoding of the value written last: an insert under
\* an existing key replaces the value and leaves the number of entries as it
\* was; len(), when no write follows it, reports that number.
C6_InsertOverwrites ==
    /\ parts[TableT] = Stored(TableT, abs[TableT])
    /\ \A c \in Callers :
          (Done(c, "len") \/ Done(c, "len_count")) /\ cs[c].res.at = wseq =>
              cs[c].res.ok /\ cs[c].res.n = Cardinality(DOMAIN abs[TableT])

\* C6 witness: insert(K, V1) then insert(K, V2), V1 # V2, were the last two
\* writes on a table that held only K: it holds one entry, V2.
C6_Witness ==
    \E c, d \in Callers :
        /\ Done(c, "insert") /\ Done(d, "insert")
        /\ cs[c].key = cs[d].key /\ cs[c].val # cs[d].val
        /\ cs[d].res.at = cs[c].res.at + 1 /\ cs[d].res.at = wseq
        /\ EngineLen(parts[TableT]) = 1
        /\ EngineGet(parts[TableT], AsBytes("String", cs[d].key)).val
              = ValEncode("String", cs[d].val)

\* C7: when the worker executes remove(K), the entry of K is gone afterwards,
\* every other entry is as it was, nothing is added, and the reply is Ok,
\* whether or not K was stored.
C7_RemoveOnlyThatKey ==
    [][(wcur.tag = "Remove" /\ wcur'.tag = "none") =>
          LET kb == AsBytes(KKind(wcur.table), wcur.gk)
              before == parts[wcur.table]
              after == parts'[wcur.table]
          IN  /\ kb \notin DOMAIN after
              /\ DOMAIN after = DOMAIN before \ {kb}
              /\ \A x \in DOMAIN after : after[x] = before[x]
              /\ reply'[wcur.resp].err = "none"]_vars

\* C7 witness: remove("a") completed on a table that held "a", "ab" and "b";
\* "ab" and "b" are still stored, "a" is not.
C7_Witness ==
    \E c \in Callers :
        /\ Done(c, "remove") /\ cs[c].res.ok /\ cs[c].key = <<97>>
        /\ cs[c].res.at = wseq
        /\ DOMAIN parts[TableT] = {<<97, 98>>, <<98>>}

\* The entries of typed table m whose key encoding starts with the encoding
\* of prefix p, in ascending byte order of the key encodings.
ExpectedPrefix(tbl, m, p) ==
    LET pb == AsBytes(KKind(tbl), p)
        bs == SortedSeq({AsBytes(KKind(tbl), k) : k \in {x \in DOMAIN m :
                            StartsWith(AsBytes(KKind(tbl), x), pb)}})
        KeyOfBytes(b) == CHOOSE k \in DOMAIN m : AsBytes(KKind(tbl), k) = b
    IN  [i \in 1..Len(bs) |-> <<KeyOfBytes(bs[i]), m[KeyOfBytes(bs[i])]>>]

\* C8: get_prefix(p) returns exactly the stored entries whose key encoding
\* starts with the encoding of p, ascending by key bytes (as long as no
\* write has been executed after the scan).
C8_PrefixExact ==
    \A c \in Callers :
        Done(c, "get_prefix") /\ cs[c].res.at = wseq =>
            /\ cs[c].res.ok
            /\ cs[c].res.ents = ExpectedPrefix(TableT, abs[TableT], cs[c].key)

\* C8 witness: with "a", "ab", "b" stored, get_prefix("a") returned "a", "ab".
C8_Witness ==
    \E c \in Callers :
        /\ Done(c, "get_prefix") /\ cs[c].key = <<97>>
        /\ DOMAIN abs[TableT] = KeysT
        /\ Len(cs[c].res.ents) = 2
        /\ cs[c].res.ents[1][1] = <<97>> /\ cs[c].res.ents[2][1] = <<97, 98>>

(***************************************************************************)
(* Claims under SpecInserters.                                             *)
(***************************************************************************)
\* C9: once all NumInserters concurrent inserts (distinct keys, empty table)
\* have returned, get of each inserter's key returns the value that inserter
\* wrote and len() returns NumInserters, in every interleaving.
C9_ConcurrentInsertsVisible ==
    \A c \in Inserters :
        cs[c].pc = "idle" /\ cs[c].phase = 1 =>
            /\ cs[c].res.ok
            /\ cs[c].op = "get" =>
                  /\ cs[c].res.some
                  /\ \A d \in Inserters : KeyOf(d) = cs[c].key => cs[c].res.val = cs[d].val
            /\ cs[c].op # "get" => cs[c].op = "len_count" /\ cs[c].res.n = NumInserters

\* C9 witness: after all inserts, one caller's len() returned NumInserters and
\* another's get returned the value the first one wrote.
C9_Witness ==
    \E c, d \in Inserters :
        /\ c # d
        /\ cs[c].pc = "idle" /\ cs[c].phase = 1 /\ cs[c].op = "len_count"
        /\ cs[c].res.n = NumInserters
        /\ cs[d].pc = "idle" /\ cs[d].phase = 1 /\ cs[d].op = "get"
        /\ cs[d].key = KeyOf(c) /\ cs[d].res.some /\ cs[d].res.val = cs[c].val

(***************************************************************************)
(* Claims under SpecIndex.                                                 *)
(***************************************************************************)
ForwardValues(k) ==
    {w \in IndexValues : EngineContains(parts[FwdTable], AsBytes("String", IndexKey(w, k)))}

\* C3: at any time the forward table holds at most one entry per primary
\* key, also when callers insert for the same primary key concurrently.
C3_OneForwardEntryPerKey == \A k \in PKeys : Cardinality(ForwardValues(k)) <= 1

ResultKeys(c) == {cs[c].res.ents[i][1] : i \in 1..Len(cs[c].res.ents)}

\* C4: primary key K1 has a record and was indexed under v1; once the index
\* insert (v2, K1) of caller d, v2 # v1, has completed, a lookup by v1 does
\* not return K1 and a lookup by v2 returns K1.  (d's insert found the entry
\* of v1 and made the last write; the lookup of c scanned after that write.)
C4_SecondInsertReplaces ==
    \A c, d \in Callers :
        ( /\ c # d
          /\ Done(d, "idx_insert") /\ cs[d].res.ok /\ cs[d].res.at = wseq
          /\ cs[d].key # <<>> /\ SplitOnce(cs[d].key).left # cs[d].ival
          /\ cs[d].pk \in DOMAIN abs[TableP]
          /\ Done(c, "idx_get") /\ cs[c].res.ok /\ cs[c].res.at = wseq
          /\ cs[c].ival \in {SplitOnce(cs[d].key).left, cs[d].ival} )
        => (cs[d].pk \in ResultKeys(c) <=> cs[c].ival = cs[d].ival)

(***************************************************************************)
(* Claims under SpecLookup.                                                *)
(***************************************************************************)
\* C10: an index lookup get(v) never fails on a dangling entry; with no write
\* since its scan, every pair it returned is a key with its current record
\* (a forward entry whose key has no record is left out), and every key
\* indexed under v that has a record is returned with that record.
C10_LookupSkipsDangling ==
    \A c \in Callers :
        Done(c, "idx_get") =>
            /\ cs[c].res.ok
            /\ cs[c].res.at = wseq =>
                  /\ \A i \in 1..Len(cs[c].res.ents) :
                        /\ cs[c].res.ents[i][1] \in DOMAIN abs[TableP]
                        /\ cs[c].res.ents[i][2] = abs[TableP][cs[c].res.ents[i][1]]
                  /\ \A k \in PKeys :
                        ( /\ IndexKey(cs[c].ival, k) \in DOMAIN abs[FwdTable]
                          /\ k \in DOMAIN abs[TableP] )
                        => \E i \in 1..Len(cs[c].res.ents) :
                              cs[c].res.ents[i] = <<k, abs[TableP][k]>>

\* C10 witness: a lookup returned a record while another key indexed under
\* the same value had lost its record and was left out.
C10_Witness ==
    \E c \in Callers :
        /\ Done(c, "idx_get") /\ cs[c].res.ok /\ cs[c].res.at = wseq
        /\ Len(cs[c].res.ents) = 1
        /\ \E k \in PKeys :
              /\ IndexKey(cs[c].ival, k) \in DOMAIN abs[FwdTable]
              /\ k \notin DOMAIN abs[TableP]
              /\ k \notin ResultKeys(c)

(***************************************************************************)
(* Claims under SpecKeys.                                                  *)
(***************************************************************************)
\* C20: for every key kind and key k, from_bytes(as_bytes(k)) succeeds with
\* k and from_key_string(to_key_string(k)) succeeds with k.
C20_KeyRoundTrip ==
    \A c \in KeyUsers :
        cs[c].op \in {"from_bytes", "from_key_string"} =>
            cs[c].res.ok /\ cs[c].res.val = cs[c].key

\* C20 witness: the 16-bit key -129 went through its two bytes and back.
C20_Witness ==
    \E c \in KeyUsers :
        /\ cs[c].kk = "i16" /\ cs[c].key = -129 /\ cs[c].op = "from_bytes"
        /\ cs[c].val = <<255, 127>> /\ cs[c].res.ok /\ cs[c].res.val = -129

(***************************************************************************)
(* Claims under SpecOpen.                                                  *)
(***************************************************************************)
Sent(c, tag) == \E i \in 1..Len(cs[c].acc) : cs[c].acc[i] = tag

\* The partition holds exactly one row, written by a (u32, String) table.
OneU32Row ==
    /\ TableM \in DOMAIN parts
    /\ \E k \in OpenKeys("u32") :
         parts[TableM] = [b \in {AsBytes("u32", k)} |-> ValEncode("String", OpenValue("String"))]

\* C11: with one row of a (u32, String) table in the partition, create_table
\* as (String, String) with replace_if_incompatible = false fails with
\* KeyTypeMismatch, whatever the u32 key.
C11_ReopenOtherKeyKindFails ==
    \A c \in Callers :
        ( /\ Done(c, "create_table") /\ cs[c].res.at = wseq
          /\ cs[c].kk = "String" /\ cs[c].vk = "String" /\ ~cs[c].rif
          /\ OneU32Row )
        => cs[c].res.err = "KeyTypeMismatch"

\* The first entry the call read does not decode as the call's (K, V).
FirstMismatches(c) ==
    /\ cs[c].ents # <<>>
    /\ ~FromBytes(cs[c].kk, cs[c].ents[1]).ok \/ ~ValDecode(cs[c].vk, cs[c].ents[2]).ok

\* C12: create_table with replace_if_incompatible = true whose first entry
\* fails to decode as K or as V deletes and recreates the partition: the call
\* succeeds, and with no write since, the table is empty (is_empty, len 0,
\* no key of any kind found).
C12_ReplaceGivesEmptyTable ==
    \A c \in Callers :
        (Done(c, "create_table") /\ cs[c].rif /\ FirstMismatches(c)) =>
            /\ cs[c].res.ok
            /\ Sent(c, "DeleteTable")
            /\ cs[c].res.at = wseq =>
                  /\ TableM \in DOMAIN parts
                  /\ EngineIsEmpty(parts[TableM])
                  /\ EngineLen(parts[TableM]) = 0
                  /\ \A kk \in OpenKKinds : \A k \in OpenKeys(kk) :
                        ~EngineGet(parts[TableM], AsBytes(kk, k)).some

\* C12 witness: the row (255, "x") of a (u32, String) table was replaced by
\* an empty (String, String) table.
C12_Witness ==
    \E c \in Callers :
        /\ Done(c, "create_table") /\ cs[c].rif /\ cs[c].res.ok /\ cs[c].res.at = wseq
        /\ cs[c].kk = "String" /\ cs[c].vk = "String"
        /\ cs[c].ents = <<AsBytes("u32", 255), ValEncode("String", <<120>>)>>
        /\ Sent(c, "DeleteTable")
        /\ TableM \in DOMAIN parts /\ DOMAIN parts[TableM] = {}

C14_NewOrEmptyReturnsAtOnce ==
    \A c \in Callers :
        (Done(c, "create_table") /\ (Sent(c, "new") \/ Sent(c, "empty"))) =>
            /\ cs[c].res.ok
            /\ ~Sent(c, "FirstKeyValue") /\ ~Sent(c, "DeleteTable")
            /\ cs[c].res.at = wseq => TableM \in DOMAIN parts /\ DOMAIN parts[TableM] = {}

\* C14 witness: a (u32, String) table emptied by a remove was reopened as
\* (String, ()).
C14_Witness ==
    \E c \in Callers :
        /\ Done(c, "create_table") /\ Sent(c, "empty") /\ cs[c].res.ok
        /\ cs[c].kk = "String" /\ cs[c].vk = "Unit"
        /\ wseq >= 1

(***************************************************************************)
(* Claims under SpecDrop.                                                  *)
(***************************************************************************)
\* The Action of caller c's pending call is neither queued nor in execution.
Served(c) == wcur.resp # c /\ \A i \in 1..Len(chan) : chan[i].resp # c

\* C16: dropping a pending call does not cancel its Action: the engine holds
\* the result of every executed write, dropped or not; each dropped call
\* whose Action was executed is logged once; the worker keeps running and a
\* later get returns what the writes executed so far left.
C16_DroppedCallStillExecuted ==
    /\ running
    /\ parts[TableT] = Stored(TableT, abs[TableT])
    /\ warned = Cardinality({c \in Callers : cs[c].pc = "dropped" /\ Served(c)})
    /\ \A c \in Callers :
          (Done(c, "get") /\ cs[c].res.at = wseq) =>
              /\ cs[c].res.ok
              /\ cs[c].res.some = (cs[c].key \in DOMAIN abs[TableT])
              /\ cs[c].res.some => cs[c].res.val = abs[TableT][cs[c].key]

\* C16 witness: a caller dropped its insert, the worker executed it and
\* logged the failed reply, and another caller's later get returned the
\* inserted value.
C16_Witness ==
    \E c, d \in Callers :
        /\ cs[c].pc = "dropped" /\ cs[c].op = "insert" /\ Served(c)
        /\ warned = 1
        /\ Done(d, "get") /\ cs[d].res.at = wseq /\ cs[d].key = cs[c].key
        /\ cs[d].res.some /\ cs[d].res.val = cs[c].val
        /\ wseq = 1 /\ DOMAIN abs[TableT] = {cs[c].key}

(***************************************************************************)
(* Claims under SpecCreateDb.                                              *)
(***************************************************************************)
FailedOpen(c) == Done(c, "create_database") /\ ~cs[c].res.ok

\* C17 as stated: after a failed open the worker keeps running uninitialized
\* and still accepts Actions (its channel has a Sender), until a retry.
C17_WorkerServesAfterFailedOpen ==
    (\E c \in Callers : FailedOpen(c)) /\ ~keyspace => running /\ ChannelOpen

\* C17 as amended: the failure of the open is returned to the caller that
\* requested it and no Database is made: with no Sender left the worker gets
\* no further Action (the channel stays empty, no Action is ever answered
\* StoreNotInitialized) and holds no keyspace; a Database exists only over a
\* running worker whose keyspace is open.
C17_FailedOpenLeavesNoDatabase ==
    /\ \A c \in Callers :
          /\ Done(c, "create_database") => cs[c].res.err = cs[c].key
          /\ Done(c, "create_table") => cs[c].res.ok
    /\ database => running /\ keyspace
    /\ ~ChannelOpen => chan = <<>> /\ ~keyspace /\ ~database

\* C17 witness: one caller's open failed and its worker ended; the retry of
\* another caller succeeded on a new worker.
C17_Witness ==
    \E c, d \in Callers :
        /\ FailedOpen(c) /\ cs[c].res.err = "Fjall"
        /\ Done(d, "create_database") /\ cs[d].res.ok
        /\ database /\ running /\ keyspace

(***************************************************************************)
(* Claims under SpecChannel.                                               *)
(***************************************************************************)
\* C15 as stated: the Actions sent and not yet taken by the worker never
\* number more than the channel's capacity of 16.
C15_ChannelBounded == Len(chan) <= ChannelBuffer

\* C15, amended: the Actions sent and not yet taken never number more than 16
\* plus the callers suspended in their send; the callers suspended are as many
\* as the Actions in excess of 16, the Action of each is already in the
\* channel, and a take by the worker resumes one of them.
C15_BoundedPlusSenders ==
    /\ Len(chan) <= ChannelBuffer + Cardinality(ParkedSenders)
    /\ Cardinality(ParkedSenders) = IF Len(chan) > ChannelBuffer THEN Len(chan) - ChannelBuffer ELSE 0
    /\ \A c \in ParkedSenders : \E i \in 1..Len(chan) : chan[i].resp = c

\* C15 witness: a caller that was suspended in its send has been resumed by a
\* take of the worker while the channel still holds 16 Actions, its own among
\* them.
C15_Witness ==
    /\ taken >= 1
    /\ Len(chan) = ChannelBuffer
    /\ ParkedSenders = {}
    /\ cs[NumSenders].pc = "wait"
    /\ chan[Len(chan)].resp = NumSenders

(***************************************************************************)
(* Claims under SpecStatic.                                                *)
(***************************************************************************)
\* The callers that are constructing the instance of acc or are about to set it.
Constructing(acc) ==
    {c \in Callers : \E i \in 1..Len(statics.stack[c]) :
        statics.stack[c][i].acc = acc /\ statics.stack[c][i].pc \in {"new", "set"}}

\* C18 as stated: for each accessor the construction is performed at most
\* once, the slot is set exactly once and never fails to be set, and every
\* caller returns the same instance.
C18_ConstructedAtMostOnce ==
    \A acc \in Accessors :
        /\ statics.built[acc] <= 1
        /\ statics.sets[acc] <= 1 /\ statics.setfails[acc] = 0
        /\ Cardinality(statics.ret[acc]) <= 1

\* C18, amended: for each accessor at most one construction is in progress at
\* any time and at most one succeeds (another begins only after one failed);
\* the slot is set at most once, the set never fails, and every caller that
\* returns, returns the instance in the slot.
C18_OneConstructionAtATime ==
    \A acc \in Accessors :
        /\ Cardinality(Constructing(acc)) <= 1
        /\ statics.built[acc] <= statics.fails[acc] + 1
        /\ statics.sets[acc] <= 1 /\ statics.setfails[acc] = 0
        /\ statics.ret[acc] \subseteq {statics.cell[acc]} \ {0}
        /\ statics.cell[acc] # 0 <=> statics.sets[acc] = 1

\* C18 witness: two first callers of the table accessor raced; the one that
\* got the lock second found the slot set under the lock, and both returned
\* the one instance.
C18_Witness ==
    /\ statics.late["table"] >= 1
    /\ statics.built["table"] = 1
    /\ statics.ret["table"] = {1}
    /\ \A c \in Callers : statics.stack[c] = <<>>
    /\ nops = 2

\* C19 as stated: after a call whose construction failed, no later call of
\* the same accessor performs the construction again or returns an instance.
C19_FailureIsFinal ==
    \A acc \in Accessors :
        statics.failedAt[acc] # 0 =>
            /\ statics.built[acc] = statics.failedAt[acc]
            /\ statics.cell[acc] = 0

\* C19, amended: a failed construction leaves the slot empty, and the slot
\* stays empty until a later construction succeeds.  Where the panic does
\* not unwind, the failed caller keeps the lock and no later call constructs
\* or returns an instance; where it unwinds, the failed caller holds no lock
\* afterwards, so a later call can construct again.
C19_FailureLeavesSlotEmpty ==
    \A acc \in Accessors :
        /\ (statics.failedAt[acc] # 0 /\ statics.built[acc] = statics.failedAt[acc])
               => statics.cell[acc] = 0
        /\ (statics.failedAt[acc] # 0 /\ ~statics.unwind)
               => /\ statics.built[acc] = statics.failedAt[acc]
                  /\ statics.lock[acc] # 0 /\ statics.dead[statics.lock[acc]]
        /\ (statics.unwind /\ statics.lock[acc] # 0)
               => statics.stack[statics.lock[acc]] # <<>>

\* C19 witness: the construction of the store failed and its panic unwound;
\* a later call constructed the store again and returned it.
C19_Witness ==
    /\ statics.unwind
    /\ statics.failedAt["store"] = 1
    /\ statics.built["store"] = 2
    /\ statics.ret["store"] = {2}

(***************************************************************************)
(* Claims under SpecKeyOrder.                                              *)
(***************************************************************************)
Unsigned(kind) == kind \in {"u8", "u16", "u32", "u64"}

\* The keys' own order: numeric for integers, by code points for strings.
NaturalLess(kind, a, b) == IF kind = "String" THEN BytesLess(a, b) ELSE a < b

\* C21: for every unsigned kind and keys a < b, as_bytes(a) sorts before
\* as_bytes(b) byte-lexicographically, and both encodings have the width of
\* the kind.
C21_UnsignedOrderPreserved ==
    \A c \in KeyUsers :
        (cs[c].op = "compared" /\ Unsigned(cs[c].kk)) =>
            /\ Len(cs[c].val) = Width(cs[c].kk)
            /\ Len(cs[c].ents[1]) = Width(cs[c].kk)
            /\ cs[c].key < cs[c].ival => cs[c].res.ok

\* C21 witness: the u16 keys 255 < 256 were encoded as 00 FF and 01 00 and
\* compared.
C21_Witness ==
    \E c \in KeyUsers :
        /\ cs[c].op = "compared" /\ cs[c].kk = "u16"
        /\ cs[c].key = 255 /\ cs[c].ival = 256
        /\ cs[c].val = <<0, 255>> /\ cs[c].ents[1] = <<1, 0>> /\ cs[c].res.ok

\* C22: for every key kind, the signed integer kinds included, and keys
\* a < b of that kind, as_bytes(a) sorts before as_bytes(b).
C22_OrderPreserved ==
    \A c \in KeyUsers :
        (cs[c].op = "compared" /\ NaturalLess(cs[c].kk, cs[c].key, cs[c].ival))
            => cs[c].res.ok

(***************************************************************************)
(* Claims under SpecDecode.                                                *)
(***************************************************************************)
\* s is a decimal numeral of the kind, in range.
IsNumeralOf(kind, s) ==
    \E n \in Numerals :
        /\ n.s = s
        /\ n.neg => Signed(kind)
        /\ n.v >= KindMin(kind) /\ n.v <= KindMax(kind)

\* The input cannot be parsed into the kind by the decoder named op.
Unparsable(op, kind, x) ==
    IF op = "from_bytes"
      THEN (IF kind = "String" THEN x \in IllFormedUtf8 ELSE Len(x) # Width(kind))
      ELSE kind # "String" /\ ~IsNumeralOf(kind, x)

\* C23: decoding a key returns KeyTypeMismatch, and no key, exactly when the
\* input cannot be parsed into the kind (wrong byte length for an integer,
\* not an in-range decimal numeral, not valid UTF-8); otherwise it succeeds.
C23_DecodeFailsExactlyOnUnparsable ==
    \A c \in KeyUsers :
        cs[c].op \in {"from_bytes", "from_key_string"} =>
            IF Unparsable(cs[c].op, cs[c].kk, cs[c].key)
              THEN ~cs[c].res.ok /\ cs[c].res.err = "KeyTypeMismatch"
              ELSE cs[c].res.ok /\ cs[c].res.err = "none"

\* C23 witness: "256" was refused as a u8 key.
C23_Witness ==
    \E c \in KeyUsers :
        /\ cs[c].op = "from_key_string" /\ cs[c].kk = "u8" /\ cs[c].key = <<50, 53, 54>>
        /\ ~cs[c].res.ok /\ cs[c].res.err = "KeyTypeMismatch"

(***************************************************************************)
(* Claims under SpecFirst.                                                 *)
(***************************************************************************)
\* C25: get_first(v) returns the first entry that get(v) returns, and none
\* exactly when get(v) returns no entry (the tables do not change between
\* the two calls).
C25_GetFirstIsFirstOfGet ==
    \A c, d \in Callers :
        (/\ Done(c, "idx_get") /\ cs[c].res.ok
         /\ Done(d, "idx_get_first") /\ cs[d].res.ok
         /\ cs[c].ival = cs[d].ival)
        => /\ cs[d].res.some <=> cs[c].res.ents # <<>>
           /\ cs[d].res.some => cs[d].res.ents[1] = cs[c].res.ents[1]

\* The forward key under which primary key k is indexed.
ForwardKeyOf(k) == abs[RevTable][ToKeyString("u32", k)]

\* C26: get(v) returns its matches in the byte order of their forward keys,
\* index value first and the primary key's decimal string second (key 10
\* before key 2, key 1 before key 2), and leaves out no key indexed under v
\* that has a record.
C26_GetOrderedByForwardKey ==
    \A c \in Callers :
        (Done(c, "idx_get") /\ cs[c].res.ok) =>
            LET es == cs[c].res.ents IN
            /\ \A i, j \in 1..Len(es) :
                   i < j => BytesLess(ForwardKeyOf(es[i][1]), ForwardKeyOf(es[j][1]))
            /\ \A k \in DOMAIN abs[TableP] :
                   IndexKey(cs[c].ival, k) \in DOMAIN abs[FwdTable]
                       => \E i \in 1..Len(es) : es[i][1] = k
            /\ (\A k \in FirstKeys : k \in DOMAIN abs[TableP]
                                     /\ IndexKey(cs[c].ival, k) \in DOMAIN abs[FwdTable])
                   => [i \in 1..Len(es) |-> es[i][1]] = <<1, 10, 2>>

\* C26 witness: with 1, 2 and 10 indexed under "a", get("a") returned the
\* records of 1, 10 and 2, in this order.
C26_Witness ==
    \E c \in Callers :
        /\ Done(c, "idx_get") /\ cs[c].res.ok /\ cs[c].ival = <<97>>
        /\ Len(cs[c].res.ents) = 3
        /\ cs[c].res.ents[1] = <<1, RecordOf(1)>>
        /\ cs[c].res.ents[2] = <<10, RecordOf(10)>>
        /\ cs[c].res.ents[3] = <<2, RecordOf(2)>>

(***************************************************************************)
(* Claims under SpecItem.                                                  *)
(***************************************************************************)
\* Caller c calls a type-level accessor in this step.
ItemCalls(c) == cs[c].pc = "idle" /\ cs'[c].kk \in ItemEntries /\ nops' = nops + 1

\* C24: a lookup through get_by_index, get_first_by_index or index_table with
\* an index name the type does not declare fails with MissingIndex carrying
\* that name, in the step of the call itself: no partition is created and no
\* Action is sent.
C24_UndeclaredIndexFailsAtOnce ==
    [][\A c \in Callers :
          (ItemCalls(c) /\ cs'[c].key \notin DeclaredIndexes) =>
              /\ cs'[c].pc = "idle"
              /\ cs'[c].res.err = "MissingIndex" /\ cs'[c].res.val = cs'[c].key
              /\ DOMAIN parts' = DOMAIN parts
              /\ chan' = chan /\ sent' = sent]_vars

\* C24 witness: get_by_index("nope", ..) has failed with MissingIndex("nope")
\* before any index partition exists and before any Action was sent.
C24_Witness ==
    \E c \in Callers :
        /\ Done(c, "get_by_index") /\ cs[c].key = <<110, 111, 112, 101>>
        /\ cs[c].res.err = "MissingIndex" /\ cs[c].res.val = cs[c].key
        /\ DOMAIN parts = {TableP} /\ sent = 0

(***************************************************************************)
(* Claims under SpecLen.                                                   *)
(***************************************************************************)
\* Caller c sends an Action with this tag in this step.
Sends(c, tag) ==
    /\ sent' = sent + 1
    /\ chan'[Len(chan')].resp = c /\ chan'[Len(chan')].tag = tag

\* C27: len first sends the emptiness check and sends the Len (count) Action
\* only when that check answered "not empty"; on "empty" it returns 0 without
\* a Len Action.  is_empty never sends a Len Action.
C27_CountOnlyWhenNotEmpty ==
    [][\A c \in Callers :
          /\ (cs[c].pc = "idle" /\ cs'[c].pc = "wait" /\ cs'[c].op \in {"len", "is_empty"})
                 => Sends(c, "IsTableEmpty")
          /\ Sends(c, "Len")
                 => /\ cs[c].op = "len" /\ cs[c].pc = "wait"
                    /\ reply[c].err = "none" /\ ~reply[c].some
          /\ (cs[c].op = "len" /\ Replied(c) /\ reply[c].err = "none" /\ reply[c].some
              /\ cs'[c] # cs[c])
                 => /\ cs'[c].pc = "idle" /\ cs'[c].res.ok /\ cs'[c].res.n = 0
                    /\ chan' = chan /\ sent' = sent]_vars

\* C27 witness: len of the empty table returned 0 after one Action, the
\* emptiness check.
C27_Witness ==
    \E c \in Callers :
        /\ Done(c, "len") /\ cs[c].res.ok /\ cs[c].res.n = 0
        /\ sent = 1 /\ taken = 1 /\ ~WorkerBusy

LastSent == chan'[Len(chan')]

\* Caller c sends this Action on table tbl with typed key k in this step.
SendsOn(c, tag, tbl, k) == Sends(c, tag) /\ LastSent.table = tbl /\ LastSent.gk = k

\* Caller c's index insert returns err in this step and sends nothing.
InsertReturns(c, err) ==
    /\ cs'[c].pc = "idle" /\ cs'[c].op = "idx_insert" /\ cs'[c].res.err = err
    /\ sent' = sent /\ chan' = chan

InitRowM == <<AsBytes("u32", 255), ValEncode("String", <<120>>)>>

\* Every write so far added a row to the one row the partition started
\* with: it was never deleted, nothing was removed or overwritten, so the
\* first pair ever stored in it is InitRowM.  (A partition that started
\* absent has at most one row per write.)
OnlyGrown == TableM \in DOMAIN abs /\ Cardinality(DOMAIN abs[TableM]) = 1 + wseq

\* create_table of caller c has returned after reading a first entry,
\* without replacing the partition, and nothing was written since.
CheckedFirst(c) ==
    /\ Done(c, "create_table") /\ Sent(c, "FirstKeyValue") /\ ~Sent(c, "DeleteTable")
    /\ cs[c].ents # <<>>
    /\ cs[c].res.at = wseq

\* C30 as stated: the type check examines the first pair ever stored in the
\* partition (the earliest inserted pair), whatever was inserted afterwards.
C30_ChecksEarliestStoredPair ==
    \A c \in Callers : (CheckedFirst(c) /\ OnlyGrown) => cs[c].ents = InitRowM

\* C30 amended: the type check examines the stored pair whose key is least
\* in byte order at the time of the open, whenever it was inserted.
C30_ChecksLeastStoredKey ==
    \A c \in Callers :
        CheckedFirst(c) =>
            /\ TableM \in DOMAIN parts
            /\ cs[c].ents[1] \in DOMAIN parts[TableM]
            /\ cs[c].ents[2] = parts[TableM][cs[c].ents[1]]
            /\ \A y \in DOMAIN parts[TableM] : y = cs[c].ents[1] \/ BytesLess(cs[c].ents[1], y)

\* C30 witness: the partition started with (255, "x"), key 1 was inserted
\* later, and an open has then read the pair of key 1.
C30_Witness ==
    \E c \in Callers :
        /\ CheckedFirst(c) /\ OnlyGrown
        /\ DOMAIN parts[TableM] = {AsBytes("u32", 1), AsBytes("u32", 255)}
        /\ cs[c].ents[1] = AsBytes("u32", 1)

(***************************************************************************)
(* Claims under SpecOpen: what create_table leaves alone.                  *)
(***************************************************************************)
\* The first entry that create_table of caller c read does not decode as
\* the call's (K, V).
FirstPairMismatch(c) ==
    /\ cs[c].ents # <<>>
    /\ ~FromBytes(cs[c].kk, cs[c].ents[1]).ok \/ ~ValDecode(cs[c].vk, cs[c].ents[2]).ok

\* This step deletes partition "m" or removes or changes one of its entries.
LosesEntryOfM ==
    /\ TableM \in DOMAIN parts
    /\ \/ TableM \notin DOMAIN parts'
       \/ \E k \in DOMAIN parts[TableM] :
             k \notin DOMAIN parts'[TableM] \/ parts'[TableM][k] # parts[TableM][k]

\* C32: create_table deletes the partition only with replace_if_incompatible
\* and a first pair that fails to decode: a call sends DeleteTable only then,
\* a call that returned KeyTypeMismatch or ValueTypeMismatch, or that found
\* the first pair compatible, sent none, and every step that loses an entry
\* is a holder's insert or remove or the DeleteTable of such a call.
C32_OpenPreservesEntries ==
    /\ [](\A c \in Callers :
            /\ Sent(c, "DeleteTable") => cs[c].rif /\ FirstPairMismatch(c)
            /\ (Done(c, "create_table") /\ Sent(c, "FirstKeyValue") /\ cs[c].ents # <<>>
                  /\ (~cs[c].rif \/ ~FirstPairMismatch(c)))
                 => /\ ~Sent(c, "DeleteTable")
                    /\ cs[c].res.ok <=> ~FirstPairMismatch(c)
                    /\ cs[c].res.at = wseq
                         => /\ TableM \in DOMAIN parts
                            /\ cs[c].ents[1] \in DOMAIN parts[TableM]
                            /\ parts[TableM][cs[c].ents[1]] = cs[c].ents[2])
    /\ [][LosesEntryOfM =>
             \/ wcur.tag \in {"Insert", "Remove"}
             \/ /\ wcur.tag = "DeleteTable"
                /\ cs[wcur.resp].rif /\ FirstPairMismatch(wcur.resp)]_vars

\* C32 witness: the table holding (255, "x") was opened as (u32, String)
\* with replace_if_incompatible = true: no DeleteTable, the row is kept.
C32_Witness ==
    \E c \in Callers :
        /\ Done(c, "create_table") /\ Sent(c, "FirstKeyValue") /\ cs[c].res.ok
        /\ cs[c].rif /\ cs[c].kk = "u32" /\ cs[c].vk = "String"
        /\ ~Sent(c, "DeleteTable")
        /\ cs[c].res.at = wseq
        /\ AsBytes("u32", 255) \in DOMAIN parts[TableM]

(***************************************************************************)
(* Claims under SpecCreateIndex.                                           *)
(***************************************************************************)
\* Caller c is inside create_index or has returned from it.
InCreateIndex(c) == cs[c].op \in {"ci_create", "ci_empty", "ci_first", "create_index"}

\* C31: create_index("name") on table "p" opens exactly the partitions
\* "p_index_name" (forward) and "p_index_name_rev" (reverse), in that order,
\* and always returns the index; no step of it, on new or on existing
\* partitions, deletes a partition or changes a forward or reverse entry
\* written before.
C31_CreateIndexIdempotent ==
    /\ [](\A c \in Callers :
            /\ InCreateIndex(c) => cs[c].tbl \in {"p_index_name", "p_index_name_rev"}
            /\ Done(c, "create_index")
                 => /\ cs[c].res.ok
                    /\ cs[c].acc = <<"p_index_name", "p_index_name_rev">>
                    /\ {"p_index_name", "p_index_name_rev"} \subseteq DOMAIN parts)
    /\ [][(wcur.tag \in {"CreateTable", "IsTableEmpty", "FirstKeyValue"})
             => /\ \A t \in DOMAIN parts : t \in DOMAIN parts' /\ parts'[t] = parts[t]
                /\ DOMAIN parts' \subseteq DOMAIN parts \cup {"p_index_name", "p_index_name_rev"}
                /\ \A t \in DOMAIN parts' \ DOMAIN parts : parts'[t] = EmptyPartition]_vars

\* C31 witness: the index partitions held the entries of key 1 under "a";
\* create_index was called again, read both first entries and returned the
\* index over the two partitions, which still hold those entries.
C31_Witness ==
    \E c \in Callers :
        /\ Done(c, "create_index") /\ cs[c].res.ok
        /\ sent >= 6 /\ wseq = 0
        /\ parts["p_index_name"] = Stored(FwdTable, ForwardOf({<<(<<97>>), 1>>}))
        /\ parts["p_index_name_rev"] = Stored(RevTable, ReverseOf({<<(<<97>>), 1>>}))

(***************************************************************************)
(* Claims under SpecStoreLife.                                             *)
(***************************************************************************)
\* C34: StoreNotInitialized is never returned: CreateDb is sent exactly when
\* a worker is started, so it is the first Action of each worker and the
\* only CreateDb it gets; every other Action is sent through a Database,
\* which exists only once CreateDb has succeeded, and is processed, like
\* every create-partition and delete-partition Action, with the keyspace
\* open.
C34_StoreNotInitializedUnreachable ==
    /\ [](/\ \A c \in Callers :
               /\ cs[c].res.err # "StoreNotInitialized"
               /\ reply[c] # NoReply => reply[c].err # "StoreNotInitialized"
          /\ \A i \in 1..Len(chan) :
               IF chan[i].tag = "CreateDb"
                 THEN Len(chan) = 1 /\ ~WorkerBusy /\ ~keyspace /\ ~database
                 ELSE keyspace
          /\ WorkerBusy =>
               IF wcur.tag = "CreateDb" THEN chan = <<>> /\ ~keyspace /\ ~database
               ELSE keyspace
          /\ database => running /\ keyspace)
    /\ [][/\ (~running /\ running') <=> (sent' = sent + 1 /\ LastSent.tag = "CreateDb")
          /\ (sent' = sent + 1 /\ LastSent.tag # "CreateDb") => database]_vars

\* C34 witness: after a failed open and a retry, a table was opened with
\* replace_if_incompatible on the partition an earlier run left: its
\* DeleteTable and CreateTable Actions were processed and returned Ok.
C34_Witness ==
    \E c, d \in Callers :
        /\ FailedOpen(d)
        /\ Done(c, "create_table") /\ Sent(c, "DeleteTable") /\ cs[c].res.ok
        /\ database /\ keyspace

(***************************************************************************)
(* Claims under SpecSave.                                                  *)
(***************************************************************************)
\* Caller c's save has written its index entries and its primary insert has
\* not been executed yet.
BetweenPhases(c) ==
    /\ cs[c].kk = "save"
    /\ \/ MidSave(c) /\ cs[c].res.ok
       \/ cs[c].op = "save_insert" /\ ~Served(c)

\* C33: save writes the index entry of the item before the primary record:
\* the primary insert is sent only after the index insert returned Ok, and
\* an index insert that failed ends save with its error and nothing sent.
\* So between the two phases the forward entry of the item is there while
\* the primary table holds no record for a new key, or the earlier record:
\* a lookup made then returns, for that key, nothing or the earlier record.
C33_SaveIndexBeforePrimary ==
    /\ [](\A c \in Callers :
            BetweenPhases(c) =>
                /\ IndexKey(cs[c].ival, cs[c].pk) \in DOMAIN abs[FwdTable]
                /\ abs[RevTable][ToKeyString("u32", cs[c].pk)] = IndexKey(cs[c].ival, cs[c].pk)
                /\ \A d \in Callers :
                     (Done(d, "idx_get") /\ cs[d].res.at = wseq) =>
                        \A i \in 1..Len(cs[d].res.ents) :
                           cs[d].res.ents[i][1] = cs[c].pk =>
                              /\ cs[c].pk \in DOMAIN abs[TableP]
                              /\ cs[d].res.ents[i][2] = abs[TableP][cs[c].pk])
    /\ [][\A c \in Callers :
            /\ (Sends(c, "Insert") /\ LastSent.table = TableP)
                  => /\ MidSave(c) /\ cs[c].res.ok
                     /\ LastSent.gk = cs[c].pk /\ LastSent.gv = cs[c].ival
            /\ (MidSave(c) /\ ~cs[c].res.ok /\ cs'[c] # cs[c])
                  => /\ Done(c, "save")' /\ cs'[c].res = cs[c].res
                     /\ sent' = sent /\ chan' = chan]_vars

\* C33 witness: the item (2, "a") is being saved, key 2 being new: its
\* index entry is written, its record is not, and a lookup of "a" made in
\* between returned the record of key 1 only.
C33_Witness ==
    \E c, d \in Callers :
        /\ BetweenPhases(c) /\ cs[c].pk = 2 /\ cs[c].ival = <<97>>
        /\ 2 \notin DOMAIN abs[TableP]
        /\ Done(d, "idx_get") /\ cs[d].ival = <<97>> /\ cs[d].res.at = wseq
        /\ cs[d].res.ents = <<(<<1, RecordOf(1)>>)>>

(***************************************************************************)
(* Claims under SpecReplies.                                               *)
(***************************************************************************)
\* The Action tag of a Table operation.
TagOf(op) ==
    CASE op = "insert" -> "Insert"
      [] op = "get" -> "Get"
      [] op = "contains" -> "Contains"
      [] op = "remove" -> "Remove"
      [] OTHER -> "none"

\* Action a is the request of caller c's pending operation.
RequestOf(a, c) ==
    /\ a.resp = c /\ a.tag = TagOf(cs[c].op)
    /\ a.table = cs[c].tbl
    /\ a.key = AsBytes(KKind(cs[c].tbl), cs[c].key)
    /\ a.tag = "Insert" => a.value = ValEncode(VKind(cs[c].tbl), cs[c].val)

\* Where the request of caller c is: queued, in execution, answered.
Pending(c) ==
    Cardinality({i \in 1..Len(chan) : chan[i].resp = c})
      + (IF wcur.resp = c THEN 1 ELSE 0) + (IF reply[c] # NoReply THEN 1 ELSE 0)

\* C35: each caller gets the reply to its own Action and to no other: a
\* waiting caller's request is in exactly one place (queued, in execution
\* or answered), a caller that does not wait has none; the worker resolves
\* the slot of the Action it executed, once, with the result of that
\* caller's operation on that table and key, and touches no other slot; a
\* resolved slot changes only when its caller takes the reply.
C35_ReplyToOwnAction ==
    /\ [](/\ \A c \in Callers :
               /\ Pending(c) = (IF cs[c].pc = "wait" THEN 1 ELSE 0)
               /\ wcur.resp = c => RequestOf(wcur, c)
               /\ \A i \in 1..Len(chan) : chan[i].resp = c => RequestOf(chan[i], c)
          /\ \A i \in 1..Len(chan) : chan[i].resp \in Callers
          /\ WorkerBusy => wcur.resp \in Callers)
    /\ [][/\ (WorkerBusy /\ ~WorkerBusy') =>
               LET c == wcur.resp
                   p == parts[cs[c].tbl]
                   kb == AsBytes(KKind(cs[c].tbl), cs[c].key)
               IN  /\ reply[c] = NoReply /\ reply'[c] # NoReply
                   /\ \A d \in Callers \ {c} : reply'[d] = reply[d]
                   /\ reply'[c].err = "none"
                   /\ cs[c].op = "get" =>
                        /\ reply'[c].some = (kb \in DOMAIN p)
                        /\ kb \in DOMAIN p => reply'[c].val = p[kb]
                   /\ cs[c].op = "contains" => reply'[c].some = (kb \in DOMAIN p)
                   /\ cs[c].op = "insert" =>
                        parts'[cs[c].tbl][kb] = ValEncode(VKind(cs[c].tbl), cs[c].val)
                   /\ cs[c].op = "remove" => kb \notin DOMAIN parts'[cs[c].tbl]
          /\ \A c \in Callers :
               (reply[c] # NoReply /\ reply'[c] # reply[c])
                  => reply'[c] = NoReply /\ cs[c].pc = "wait" /\ cs'[c].pc = "idle"]_vars

\* C35 witness: two callers asked for the keys "a" and "ab" at the same
\* time; both slots are resolved, each with the value stored under its key.
C35_Witness ==
    \E c, d \in Callers :
        /\ c # d /\ cs[c].op = "get" /\ cs[d].op = "get"
        /\ cs[c].key = <<97>> /\ cs[d].key = <<97, 98>>
        /\ cs[c].pc = "wait" /\ cs[d].pc = "wait"
        /\ reply[c] # NoReply /\ reply[c].val = ValEncode("String", <<120>>)
        /\ reply[d] # NoReply /\ reply[d].val = ValEncode("String", <<121>>)

(***************************************************************************)
(* Claims under SpecSeqInsert.                                             *)
(***************************************************************************)
\* The forward keys the reverse table names.
ReverseValues ==
    {AsBytes("String", ValDecode("String", parts[RevTableS][k]).val) :
        k \in DOMAIN parts[RevTableS]}

\* C36: after each of a sequence of index inserts that run one at a time,
\* the keys of the forward table are exactly the values of the reverse
\* table, and the reverse entry of every primary key ever indexed is the
\* forward key `v\0pk` of its most recent insert.
C36_ForwardMatchesReverse ==
    /\ DOMAIN parts[FwdTableS] = ReverseValues
    /\ \A pk \in DOMAIN abs[RevTableS] :
          /\ AsBytes("String", pk) \in DOMAIN parts[RevTableS]
          /\ parts[RevTableS][AsBytes("String", pk)] = ValEncode("String", abs[RevTableS][pk])

(***************************************************************************)
(* Claims under SpecLookup: whose records a lookup returns.                *)
(***************************************************************************)
\* C37: get(v) returns only records of primary keys whose most recent index
\* value is exactly v (their reverse entry names the forward key `v\0pk`),
\* also when v is a proper prefix of another index value.
C37_LookupReturnsExactValueOnly ==
    \A c \in Callers :
        (Done(c, "idx_get") /\ cs[c].res.ok) =>
            \A k \in ResultKeys(c) :
                /\ ToKeyString("u32", k) \in DOMAIN abs[RevTable]
                /\ abs[RevTable][ToKeyString("u32", k)] = IndexKey(cs[c].ival, k)

(***************************************************************************)
(* Claims under SpecLenWrites.                                             *)
(***************************************************************************)
\* The number of entries of table "t" now.
SizeNow == Cardinality(DOMAIN abs[TableT])

\* The answer in caller c's slot settles what its len will return.
LenAnswered(c) ==
    /\ cs[c].pc = "wait" /\ reply[c] # NoReply
    /\ \/ cs[c].op = "len" /\ reply[c].some
       \/ cs[c].op = "len_count"

\* The value len will return from that answer.
LenValue(c) == IF cs[c].op = "len" THEN 0 ELSE reply[c].n

\* C39: len returns the number of entries the table held at an instant
\* between the call and its return: the answer that settles the value is
\* produced while the caller waits and is the table's size at that instant
\* (it equals the current size as long as no write was executed since), and
\* len returns exactly that value, whatever was written before or after.
C39_LenIsSizeAtSomeInstant ==
    /\ [](\A c \in Callers :
            /\ (LenAnswered(c) /\ reply[c].at = wseq) => LenValue(c) = SizeNow
            /\ (cs[c].pc = "idle" /\ cs[c].op \in {"len", "len_count"} /\ cs[c].res.at = wseq)
                  => cs[c].res.ok /\ cs[c].res.n = SizeNow)
    /\ [][\A c \in Callers :
            /\ (cs[c].op \in {"len", "len_count"} /\ cs[c].pc = "wait" /\ cs'[c].pc = "idle")
                  => /\ LenAnswered(c)
                     /\ cs'[c].res.n = LenValue(c) /\ cs'[c].res.at = reply[c].at
            /\ (LenAnswered(c)' /\ ~LenAnswered(c))
                  => reply'[c].at = wseq' /\ cs[c].pc = "wait"]_vars

\* C39 witness: the count 3 is in the slot of a len call that has not
\* returned yet, and a remove executed since has left 2 entries.
C39_Witness ==
    \E c \in Callers :
        /\ LenAnswered(c) /\ cs[c].op = "len_count"
        /\ reply[c].n = 3 /\ SizeNow = 2 /\ wseq = 1


(***************************************************************************)
(* C38: nested singleton initialisation.                                   *)
(***************************************************************************)
\* Position of an accessor in the order index, table, store.
LockRank(acc) == IF acc = "index" THEN 1 ELSE IF acc = "table" THEN 2 ELSE 3

\* Caller c has an accessor call in progress.
InCall(c) == statics.stack[c] # <<>> /\ ~statics.dead[c]

\* A task ended by a panic that did not unwind, its lock guards never dropped.
TaskDied == \E d \in Callers : statics.dead[d]

\* Every caller's frames go down the order index, table, store; a frame
\* awaiting the accessor it depends on, constructing or about to return
\* holds its accessor's lock; and every held lock belongs to such a frame.
LocksOrdered ==
    /\ \A c \in Callers : \A i, j \in 1..Len(statics.stack[c]) :
           i < j => LockRank(statics.stack[c][i].acc) < LockRank(statics.stack[c][j].acc)
    /\ \A c \in Callers : \A i \in 1..Len(statics.stack[c]) :
           LET f == statics.stack[c][i]
           IN  /\ i < Len(statics.stack[c]) => f.pc = "dep"
               /\ f.pc \in {"get2", "dep", "new", "set", "ret"} <=> statics.lock[f.acc] = c
    /\ \A a \in Accessors : statics.lock[a] # 0 =>
           \E i \in 1..Len(statics.stack[statics.lock[a]]) :
               statics.stack[statics.lock[a]][i].acc = a

\* C38: locks are only acquired in the order index, table, store, each held
\* while the next accessor is called, and every accessor call eventually
\* ends (it returns the instance, or its own construction failed and the
\* panic unwound it) unless a task died in a panic that kept its guards.
C38_NestedInitReturns ==
    /\ []LocksOrdered
    /\ \A c \in Callers : InCall(c) ~> (~InCall(c) \/ TaskDied)

\* C38 witness: a call of the index accessor, holding the index and the
\* table lock, waited for the store lock while another task constructed the
\* store; it then found the store set under the lock, and the table and the
\* index were constructed and returned.
C38_Witness ==
    /\ statics.late["store"] >= 1
    /\ statics.ret["index"] = {1} /\ statics.ret["store"] = {1}
    /\ statics.built = [a \in Accessors |-> 1]
    /\ \A c \in Callers : statics.stack[c] = <<>>
    /\ \A a \in Accessors : statics.fails[a] = 0


(***************************************************************************)
(* SpecProgress: callers get entries of table "t" and ask whether it is    *)
(* empty; a caller may stop waiting for a get.  SpecProgressFair adds      *)
(* the scheduling: the worker thread keeps running (it takes the next      *)
(* Action whenever one is queued, and every engine call returns), and a    *)
(* caller that is waiting is polled once its reply has arrived.            *)
(***************************************************************************)
NextProgress ==
    \/ WorkerTake
    \/ WorkerExec
    \/ \E c \in Callers :
         \/ CallGet(c)
         \/ CallIsEmpty(c)
         \/ Recv(c)
         \/ DropCall(c)

SpecProgress == Init /\ [][NextProgress]_vars

SpecProgressFair ==
    /\ SpecProgress
    /\ WF_vars(WorkerTake) /\ WF_vars(WorkerExec)
    /\ \A c \in Callers : WF_vars(Recv(c))

\* The Action of caller c is queued in the channel.
Queued(c) == \E i \in 1..Len(chan) : chan[i].resp = c

\* The worker is executing the Action of caller c.
Executing(c) == WorkerBusy /\ wcur.resp = c

\* C40: an Action in the channel is eventually taken by the worker, a taken
\* Action is eventually executed and its reply slot resolved (the send
\* fails if the caller stopped waiting), and a caller that waits eventually
\* has its reply unless it stops waiting; whatever the other callers send.
C40_EveryActionAnswered ==
    \A c \in Callers :
        /\ Queued(c) ~> Executing(c)
        /\ Executing(c) ~> (~Executing(c) /\ ~Queued(c)
                              /\ (cs[c].pc = "wait" => reply[c] # NoReply))
        /\ (cs[c].pc = "wait") ~> (cs[c].pc = "dropped" \/ (cs[c].pc = "idle" /\ cs[c].res # NoResult))

\* C40 witness: a caller waits with its reply slot resolved while the
\* worker executes the Action another caller sent after it.
C40_Witness ==
    \E c, d \in Callers :
        /\ c # d
        /\ cs[c].pc = "wait" /\ reply[c] # NoReply
        /\ Executing(d) /\ cs[d].pc = "wait"

==========================================================================
